---------------------------- MODULE Spec2Model ----------------------------
(***************************************************************************)
(* A model of sekurkopio: the backup of a D1 database into an R2 bucket   *)
(* and the restore of such a backup, from src/src/db/backup.js,           *)
(* src/src/requests/backup/create.js and src/src/requests/backup/         *)
(* restore.js.                                                            *)
(*                                                                         *)
(* Names (of tables, bucket keys, archive members) are sequences of        *)
(* one-character strings, so that the string operations of the code       *)
(* (LIKE filters, toUpperCase, endsWith, split) are computed, not assumed. *)
(***************************************************************************)
EXTENDS Integers, Sequences, FiniteSets, TLC

(***************************************************************************)
(* Bounds of the model.                                                    *)
(***************************************************************************)
\* the most foreign keys one table declares
MaxFK == 2
\* the depth of nested calls the engine allows before it throws RangeError
MaxCallDepth == 6
\* the most members the tar extractor yields for one archive
MaxMembers == 4
\* the most rows of one table payload
MaxRows == 2
\* the most backup-create calls
MaxCalls == 3

Null == "null"
\* the name that stands for JS undefined where a table name is expected
Undefined == <<"undefined">>

Range(s) == {s[i] : i \in 1..Len(s)}

(***************************************************************************)
(* Characters and strings.                                                 *)
(***************************************************************************)
\* the characters the model uses, in ASCII order
Alphabet ==
  <<"%", ".", "/", "A", "B", "C", "P", "_", "a", "b", "c", "d", "e", "f",
    "g", "i", "j", "l", "m", "n", "o", "q", "r", "s", "t", "z">>

Code(c) == CHOOSE i \in 1..Len(Alphabet) : Alphabet[i] = c

\* String.prototype.toUpperCase / the ASCII case folding of SQLite, per character
UpperChar(c) ==
  CASE c = "a" -> "A" [] c = "b" -> "B" [] c = "c" -> "C"
    [] c = "p" -> "P"
    [] OTHER -> c

toUpperCase(s) == [i \in 1..Len(s) |-> UpperChar(s[i])]

\* s < t in the byte order SQLite's ORDER BY uses (BINARY collation)
RECURSIVE NameLess(_, _)
NameLess(s, t) ==
  IF t = <<>> THEN FALSE
  ELSE IF s = <<>> THEN TRUE
  ELSE IF Head(s) = Head(t) THEN NameLess(Tail(s), Tail(t))
  ELSE Code(Head(s)) < Code(Head(t))

\* the names of S in ascending order
RECURSIVE SortNames(_)
SortNames(S) ==
  IF S = {} THEN <<>>
  ELSE LET m == CHOOSE x \in S : \A y \in S \ {x} : NameLess(x, y)
       IN <<m>> \o SortNames(S \ {m})

\* SQLite's  s LIKE p : % is any run of characters, _ any one character,
\* letters compare without case
RECURSIVE Like(_, _)
Like(s, p) ==
  IF p = <<>> THEN s = <<>>
  ELSE IF Head(p) = "%"
       THEN Like(s, Tail(p)) \/ (s # <<>> /\ Like(Tail(s), p))
  ELSE /\ s # <<>>
       /\ (Head(p) = "_" \/ UpperChar(Head(p)) = UpperChar(Head(s)))
       /\ Like(Tail(s), Tail(p))

\* String.prototype.endsWith
endsWith(s, suffix) ==
  /\ Len(s) >= Len(suffix)
  /\ SubSeq(s, Len(s) - Len(suffix) + 1, Len(s)) = suffix

\* s.split('.')[0]
RECURSIVE SplitDot0(_)
SplitDot0(s) ==
  IF s = <<>> \/ Head(s) = "." THEN <<>>
  ELSE <<Head(s)>> \o SplitDot0(Tail(s))

DotJson == <<".", "j", "s", "o", "n">>
MetadataJson == <<"m", "e", "t", "a", "d", "a", "t", "a">> \o DotJson
DotTar == <<".", "t", "a", "r">>
DotTgz == <<".", "t", "g", "z">>
SqlitePattern == <<"s", "q", "l", "i", "t", "e", "_", "%">>
CfPattern == <<"_", "c", "f", "_", "%">>


(***************************************************************************)
(* A D1 database is a function from the names of its tables to             *)
(*   [sql, indexes, columns, fks, rows]                                    *)
(* sql is the statement that defines the table (what sqlite_master keeps), *)
(* indexes the sequence of [name, sql] on it, columns what                 *)
(* pragma_table_info reports, fks what pragma_foreign_key_list reports     *)
(* (a sequence of [table, from, to]) and rows the sequence of row tuples.  *)
(***************************************************************************)
TableSql(name, columns, fks) ==
  [stmt |-> "create_table", name |-> name, columns |-> columns, fks |-> fks]

IndexSql(name, on) == [stmt |-> "create_index", name |-> name, on |-> on]

\* the WHERE clause of the sqlite_master query: the name filter
NameFiltered(name) == Like(name, SqlitePattern) \/ Like(name, CfPattern)

\* an ordered mapping (a JS object): its keys in insertion order and its values
Obj(keys, val) == [keys |-> keys, val |-> val]
EmptyObj == Obj(<<>>, <<>>)

\* dbBkpGetTableList: the tables that pass the name filter, keyed by name in
\* ORDER BY tbl_name order, each with the indexes that pass the name filter.
\* An index that passes on a table that does not makes the forEach throw.
dbBkpGetTableList(db) ==
  LET tables == {t \in DOMAIN db : ~NameFiltered(t)}
      orphan == \E t \in DOMAIN db \ tables :
                  \E i \in 1..Len(db[t].indexes) :
                    ~NameFiltered(db[t].indexes[i].name)
      entry(t) ==
        [type |-> "table", name |-> t, sql |-> db[t].sql,
         indexes |-> SelectSeq(
            [i \in 1..Len(db[t].indexes) |->
               [type |-> "index", name |-> db[t].indexes[i].name,
                sql |-> db[t].indexes[i].sql]],
            LAMBDA ix : ~NameFiltered(ix.name))]
  IN IF orphan THEN [err |-> "TypeError", list |-> EmptyObj]
     ELSE [err |-> "none",
           list |-> Obj(SortNames(tables), [t \in tables |-> entry(t)])]

\* the reduce of lines 183-194: the distinct e.table of the constraints, in
\* first-occurrence order
RECURSIVE DependencyKeys(_, _)
DependencyKeys(constraints, seen) ==
  IF constraints = <<>> THEN <<>>
  ELSE LET k == Head(constraints).table
       IN IF k \in seen THEN DependencyKeys(Tail(constraints), seen)
          ELSE <<k>> \o DependencyKeys(Tail(constraints), seen \cup {k})

\* dbBkpPopulateTableDetails: columns, case-normalised constraints and the
\* dependencies of every table.  dependencies is kept as the sequence of the
\* referenced names: each stands for the reference tableList[name], and
\* Undefined for the reference of a name that is no key of tableList.
dbBkpPopulateTableDetails(db, inputTableList) ==
  LET tableNames == inputTableList.keys
      names == Range(tableNames)
      \* tableNameMap[name.toUpperCase()] = name; a later name overwrites
      tableNameMap(u) ==
        LET hits == {i \in 1..Len(tableNames) : toUpperCase(tableNames[i]) = u}
        IN IF hits = {} THEN Undefined
           ELSE tableNames[CHOOSE i \in hits : \A j \in hits : j <= i]
      norm(e) == [e EXCEPT !.table = tableNameMap(toUpperCase(e.table))]
      constraintsOf(t) == [i \in 1..Len(db[t].fks) |-> norm(db[t].fks[i])]
      detail(t) ==
        inputTableList.val[t] @@
        [columns |-> db[t].columns,
         constraints |-> constraintsOf(t),
         dependencies |-> DependencyKeys(constraintsOf(t), {})]
  IN IF Len(tableNames) = 0 THEN inputTableList
     ELSE Obj(tableNames, [t \in names |-> detail(t)])


(***************************************************************************)
(* getTableLoadOrder.  The traversal state st is                            *)
(*   [out, visited, err]: outLoadOrder, the tables that carry the visited   *)
(* flag, and the exception thrown so far ("none" when none).  A call nested *)
(* deeper than MaxCallDepth throws RangeError (the engine's call stack is   *)
(* finite); reading .dependencies of an undefined reference throws          *)
(* TypeError.                                                               *)
(***************************************************************************)
RECURSIVE getTableLoadOrder(_, _, _, _)
RECURSIVE LoadOrderLoop(_, _, _, _, _)

\* LoadOrderLoop with the table recorded before its dependencies are walked
RECURSIVE LoadOrderLoopPreOrder(_, _, _, _, _)
LoadOrderLoopPreOrder(tables, node, i, st, depth) ==
  IF st.err # "none" \/ i > Len(node) THEN st
  ELSE LET table == node[i]
       IN IF table = Undefined
          THEN [st EXCEPT !.err = "TypeError"]
          ELSE LET s1 == IF table \in st.visited THEN st
                         ELSE [st EXCEPT !.visited = @ \cup {table},
                                         !.out = Append(@, table)]
                   s2 == getTableLoadOrder(tables, tables[table].dependencies,
                                           s1, depth + 1)
               IN LoadOrderLoopPreOrder(tables, node, i + 1, s2, depth)

\* the body of  for (const table of Object.values(node))  from position i
LoadOrderLoop(tables, node, i, st, depth) ==
  IF st.err # "none" \/ i > Len(node) THEN st
  ELSE LET table == node[i]
       IN IF table = Undefined
          THEN [st EXCEPT !.err = "TypeError"]
          ELSE LET s1 == getTableLoadOrder(tables, tables[table].dependencies,
                                           st, depth + 1)
                   s2 == IF s1.err # "none" \/ table \in s1.visited THEN s1
                         ELSE [s1 EXCEPT !.visited = @ \cup {table},
                                         !.out = Append(@, table)]
               IN LoadOrderLoop(tables, node, i + 1, s2, depth)

\* getTableLoadOrder that leaves the traversal flags in place on return
getTableLoadOrderKeepFlags(tables, node, st, depth) ==
  IF depth > MaxCallDepth THEN [st EXCEPT !.err = "RangeError"]
  ELSE LoadOrderLoop(tables, node, 1, st, depth)

getTableLoadOrder(tables, node, st, depth) ==
  IF depth > MaxCallDepth THEN [st EXCEPT !.err = "RangeError"]
  ELSE LET s1 == LoadOrderLoop(tables, node, 1, st, depth)
       IN IF s1.err = "none" /\ depth = 0
          THEN [s1 EXCEPT !.visited = @ \ Range(node)]
          ELSE s1

\* the delete that removes nothing
DeleteNothing(rec, field) == rec

\* delete obj.field
Delete(rec, field) == [f \in DOMAIN rec \ {field} |-> rec[f]]

\* dbBkpGenerateMetaInfo: [err, loadOrder, tables, visited]; visited is the
\* set of tables that still carry the traversal flag in the returned mapping
dbBkpGenerateMetaInfo(db) ==
  LET got == dbBkpGetTableList(db)
      tables == dbBkpPopulateTableDetails(db, got.list)
      order == getTableLoadOrder(tables.val, tables.keys,
                 [out |-> <<>>, visited |-> {}, err |-> "none"], 0)
      failed(e) == [err |-> e, loadOrder |-> <<>>, tables |-> EmptyObj,
                    visited |-> {}]
  IN IF got.err # "none" THEN failed(got.err)
     ELSE IF order.err # "none" THEN failed(order.err)
     ELSE [err |-> "none",
           loadOrder |-> order.out,
           tables |-> Obj(tables.keys,
                          [t \in Range(tables.keys) |->
                             Delete(tables.val[t], "dependencies")]),
           visited |-> order.visited]


(***************************************************************************)
(* The state.                                                              *)
(***************************************************************************)
VARIABLES
  srcDb,     \* the source database of a backup
  metaInfo,  \* what dbBkpGenerateMetaInfo(srcDb) returned, err "notrun" before
  req,       \* the restore request: [fromDatabase, toDatabase, name]
  bucket,    \* the R2 bucket: a function from the keys present to objects
  dstDb,     \* the destination database of a restore
  dst0,      \* the destination database as the restore found it
  pc,        \* the position of the restore request
  metadata,  \* the metadata the restore has loaded
  fileList,  \* performTarRestore: the members still expected
  members,   \* performTarRestore: the members the extractor has yielded
  loopIdx,   \* performBareFileRestore: the position in metadata.loadOrder
  cur,       \* restoreTable: the table descriptor and the data stream
  result,    \* result.tables
  outcome,   \* the response of the request
  destLog,   \* the statements run against the destination, in order
  r2Log,     \* the operations on the bucket, in order: [op, key, by]
  assets,    \* the pre-flight check: the existence checks that have settled
  tracking,  \* the rows of the table BackupList of the tracking database
  cr         \* the backup-create calls, by client

vars == <<srcDb, metaInfo, req, bucket, dstDb, dst0, pc, metadata, fileList,
          members, loopIdx, cur, result, outcome, destLog, r2Log, assets,
          tracking, cr>>

restoreVars == <<req, bucket, dstDb, dst0, pc, metadata, fileList, members,
                 loopIdx, cur, result, outcome, destLog, r2Log, assets>>

createVars == <<tracking, cr>>

(***************************************************************************)
(* The databases and requests the specifications start from.               *)
(***************************************************************************)
nA == <<"A">>
nB == <<"B">>
nC == <<"C">>
nP == <<"P">>
TableNames == {nA, nB, nC}

\* the sequences over S of length at most n
SeqUpTo(S, n) == UNION {[1..k -> S] : k \in 0..n}

Columns == <<"id", "ref">>
\* row i holds a different value in each column
Row(i) == <<i, -i>>
Rows(n) == [i \in 1..n |-> Row(i)]
ForeignKey(target) == [table |-> target, from |-> "ref", to |-> "id"]

\* a table name that neither begins with sqlite_ nor with _cf_
nAcfg == <<"a", "c", "f", "g">>

\* a table of SQLite and a table of the platform
nSqliteS == <<"s", "q", "l", "i", "t", "e", "_", "s">>
nCfK == <<"_", "c", "f", "_", "k">>
SystemTables == {nSqliteS, nCfK}

\* the tables A and acfg and the system tables have no index, the others
\* have one
IndexesOf(t) ==
  IF t \in {nA, nAcfg} \cup SystemTables THEN <<>>
  ELSE LET ix == <<"i">> \o t
       IN <<[name |-> ix, sql |-> IndexSql(ix, t)]>>

\* the table t with foreign keys to the tables of targets and n rows
SourceTable(t, targets, n) ==
  LET fks == [i \in 1..Len(targets) |-> ForeignKey(targets[i])]
  IN [sql |-> TableSql(t, Columns, fks), indexes |-> IndexesOf(t),
      columns |-> Columns, fks |-> fks, rows |-> Rows(n)]

\* the database of the tables S where table t declares foreign keys to g[t]
Schema(S, g) == [t \in S |-> SourceTable(t, g[t], MaxRows)]

\* every database over a subset of TableNames whose tables each declare at
\* most maxFk foreign keys, to tables named in targets
Schemas(targets, maxFk) ==
  UNION {{Schema(S, g) : g \in [S -> SeqUpTo(targets, maxFk)]} :
           S \in SUBSET TableNames}

NoMetaInfo ==
  [err |-> "notrun", loadOrder |-> <<>>, tables |-> EmptyObj, visited |-> {}]

NoMetadata == [loaded |-> FALSE, loadOrder |-> <<>>, tables |-> EmptyObj]
NoOutcome == [kind |-> "none", msg |-> "", args |-> <<>>, data |-> <<>>]
NoCur ==
  [active |-> FALSE, table |-> <<>>,
   stream |-> [kind |-> "json", ok |-> FALSE, value |-> <<>>], data |-> <<>>]

RestoreIdle ==
  /\ req = [fromDatabase |-> <<"d">>, toDatabase |-> <<"t">>, name |-> <<"b">>]
  /\ bucket = <<>>
  /\ dstDb = <<>>
  /\ dst0 = <<>>
  /\ pc = "idle"
  /\ metadata = NoMetadata
  /\ fileList = <<>>
  /\ members = <<>>
  /\ loopIdx = 0
  /\ cur = NoCur
  /\ result = <<>>
  /\ outcome = NoOutcome
  /\ destLog = <<>>
  /\ r2Log = <<>>
  /\ assets = <<>>

\* the clients that may send a backup-create request, one call each
Clients == 1..MaxCalls

NoCreate ==
  [pc |-> "idle", req |-> [fromDatabase |-> <<>>, name |-> <<>>],
   metadata |-> NoMetaInfo, idx |-> 0, tables |-> <<>>, data |-> <<>>,
   record |-> <<>>, outcome |-> NoOutcome]

CreateIdle ==
  /\ tracking = <<>>
  /\ cr = [c \in Clients |-> NoCreate]

(***************************************************************************)
(* SpecOrder: dbBkpGenerateMetaInfo applied to every database of the       *)
(* bounded family, cyclic and self-referencing ones included.              *)
(***************************************************************************)
InitOrder ==
  /\ \E S \in SUBSET TableNames :
       \E g \in [S -> SeqUpTo(TableNames, MaxFK)] : srcDb = Schema(S, g)
  /\ metaInfo = NoMetaInfo
  /\ RestoreIdle
  /\ CreateIdle

GenerateMetaInfo ==
  /\ metaInfo.err = "notrun"
  /\ metaInfo' = dbBkpGenerateMetaInfo(srcDb)
  /\ UNCHANGED <<srcDb, restoreVars, createVars>>

NextOrder == GenerateMetaInfo

SpecOrder == InitOrder /\ [][NextOrder]_vars


(***************************************************************************)
(* SpecIntrospect: dbBkpGenerateMetaInfo applied to databases that hold    *)
(* system tables beside the tables of the user, and foreign keys that name *)
(* their table in another case, or a table that is not listed.             *)
(***************************************************************************)
UserTables == {nA, nB, nAcfg}

\* the tables a foreign key may name: a in place of A, and the platform's
FkNames == {nA, <<"a">>, nB, nCfK}

\* no table refers to itself and no two tables refer to each other, in
\* whatever case the foreign keys name them
NoMutualReference(g) ==
  \A t, u \in DOMAIN g :
    ~(/\ \E i \in 1..Len(g[t]) : toUpperCase(g[t][i]) = toUpperCase(u)
      /\ \E j \in 1..Len(g[u]) : toUpperCase(g[u][j]) = toUpperCase(t))

InitIntrospect ==
  /\ \E U \in SUBSET UserTables, Y \in SUBSET SystemTables :
       \E g \in [U -> SeqUpTo(FkNames, 1)] :
         /\ NoMutualReference(g)
         /\ srcDb = [t \in U \cup Y |->
                       IF t \in U THEN SourceTable(t, g[t], MaxRows)
                       ELSE SourceTable(t, <<>>, MaxRows)]
  /\ metaInfo = NoMetaInfo
  /\ RestoreIdle
  /\ CreateIdle

NextIntrospect == GenerateMetaInfo

SpecIntrospect == InitIntrospect /\ [][NextIntrospect]_vars

(***************************************************************************)
(* The foreign-key graph of the source database, for the properties.       *)
(***************************************************************************)
FkTargets(t) == {srcDb[t].fks[i].table : i \in 1..Len(srcDb[t].fks)}

\* every foreign key names a table of the database
FkResolved == \A t \in DOMAIN srcDb : FkTargets(t) \subseteq DOMAIN srcDb

\* the tables reached from t by one or more foreign keys, self-edges left out
\* of the walk when skipSelf
RECURSIVE ReachIn(_, _, _)
ReachIn(front, n, skipSelf) ==
  IF n = 0 THEN front
  ELSE LET step == UNION {{u \in FkTargets(t) \cap DOMAIN srcDb :
                             ~(skipSelf /\ u = t)} : t \in front}
       IN ReachIn(front \cup step, n - 1, skipSelf)

DependsOn(t, skipSelf) ==
  LET first == {u \in FkTargets(t) \cap DOMAIN srcDb : ~(skipSelf /\ u = t)}
  IN ReachIn(first, Cardinality(DOMAIN srcDb), skipSelf)

SelfReferencing == {t \in DOMAIN srcDb : t \in FkTargets(t)}
\* some table reaches itself through at least one other table
HasCycle == \E t \in DOMAIN srcDb : t \in DependsOn(t, TRUE)

Position(order, t) == CHOOSE i \in 1..Len(order) : order[i] = t

\* order holds every table of the database exactly once, each after every
\* other table it depends on
ValidLoadOrder(order) ==
  /\ Len(order) = Cardinality(DOMAIN srcDb)
  /\ Range(order) = DOMAIN srcDb
  /\ \A t \in DOMAIN srcDb : \A u \in DependsOn(t, TRUE) \ {t} :
       Position(order, u) < Position(order, t)

\* C1: for an acyclic foreign-key graph without self-references over the
\* tables of the database, getTableLoadOrder returns a loadOrder that holds
\* every table exactly once, each after all it depends on (transitively).
C1_LoadOrderIsTopological ==
  (metaInfo.err # "notrun" /\ FkResolved /\ SelfReferencing = {} /\ ~HasCycle)
    => (metaInfo.err = "none" /\ ValidLoadOrder(metaInfo.loadOrder))

\* a table reached along two paths (a diamond) has been ordered
C1_Witness ==
  /\ metaInfo.err = "none"
  /\ DOMAIN srcDb = TableNames
  /\ FkResolved /\ SelfReferencing = {} /\ ~HasCycle
  /\ \E t \in DOMAIN srcDb :
       /\ Cardinality(FkTargets(t)) = 2
       /\ \E u \in FkTargets(t) : FkTargets(u) # {}

\* C7 (as the specification states it): with a self-referencing table in an
\* otherwise acyclic graph, getTableLoadOrder terminates and returns a valid
\* loadOrder holding that table exactly once.
C7_SelfReferenceOrdered ==
  (metaInfo.err # "notrun" /\ FkResolved /\ SelfReferencing # {} /\ ~HasCycle)
    => (metaInfo.err = "none" /\ ValidLoadOrder(metaInfo.loadOrder))

\* C8 (as the specification states it): with a cycle of two or more tables
\* the resolver fails with CyclicDependency instead of recursing until the
\* call stack is exhausted.
C8_CycleDetected ==
  (metaInfo.err # "notrun" /\ FkResolved /\ HasCycle)
    => metaInfo.err = "CyclicDependency"


(***************************************************************************)
(* The R2 bucket and the JSON documents in it.                             *)
(***************************************************************************)
\* JSON.stringify(v), and a body that is no JSON text
JsonObj(v) == [kind |-> "json", ok |-> TRUE, value |-> v]
BadJson == [kind |-> "json", ok |-> FALSE, value |-> <<>>]
TarObj == [kind |-> "tar", ok |-> TRUE, value |-> <<>>]

Slash == <<"/">>
KeyOf(prefix, file) == prefix \o Slash \o file

\* the value passed to r2StoreJson as metadata.json: { loadOrder, tables },
\* a table that still carries the traversal flag has the property visited
MetadataDoc(mi) ==
  [loadOrder |-> mi.loadOrder,
   tables |-> Obj(mi.tables.keys,
                  [t \in Range(mi.tables.keys) |->
                     IF t \in mi.visited
                     THEN mi.tables.val[t] @@ [visited |-> TRUE]
                     ELSE mi.tables.val[t]])]

\* an operation on the bucket by a request (0 is the restore request)
R2Op(op, key, by) == [op |-> op, key |-> key, by |-> by]

\* R2.get(key): [found, object]
r2RawGet(key) ==
  IF key \in DOMAIN bucket THEN [found |-> TRUE, object |-> bucket[key]]
  ELSE [found |-> FALSE, object |-> BadJson]

(***************************************************************************)
(* The restore request (restore.js lines 1-341).                           *)
(***************************************************************************)
BoundDatabases == {<<"d">>, <<"t">>}

Outcome(kind, msg, args, data) ==
  [kind |-> kind, msg |-> msg, args |-> args, data |-> data]
fail(msg, args, data) == Outcome("fail", msg, args, data)
success(msg) == Outcome("success", msg, <<>>, <<>>)
\* an exception that leaves the request handler
throw(msg) == Outcome("throw", msg, <<>>, <<>>)

Finish(o) == /\ outcome' = o
             /\ pc' = "done"

LogEntry(op, table, ok) == [op |-> op, table |-> table, ok |-> ok]

HasKey(obj, k) == k \in Range(obj.keys)

\* verifyDbTables without the filter on the metadata
verifyDbTablesUnfiltered(db, md) ==
  LET currentData == dbBkpGetTableList(db)
  IN [err |-> currentData.err, existing |-> currentData.list.keys]

\* verifyDbTables: the tables of the database that are keys of
\* metadata.tables, in the order of the table list
verifyDbTables(db, md) ==
  LET currentData == dbBkpGetTableList(db)
  IN [err |-> currentData.err,
      existing |-> SelectSeq(currentData.list.keys,
                             LAMBDA e : HasKey(md.tables, e))]

\* the test of the name for the suffix .tar only
IsTarNameTarOnly(name) == endsWith(name, DotTar)

\* reqRestoreDump: name.endsWith('.tar') === true || name.endsWith('.tgz') === true
IsTarName(name) == endsWith(name, DotTar) \/ endsWith(name, DotTgz)

\* a restore request arrives; start is "start" for the current revision of
\* reqRestoreDump and "pf_start" for the earlier one
RestoreRequest(request, start) ==
  /\ pc = "idle"
  /\ req' = request
  /\ pc' = start
  /\ dst0' = dstDb
  /\ UNCHANGED <<createVars, r2Log, assets, srcDb, metaInfo, bucket, dstDb,
                 metadata, fileList, members, loopIdx, cur, result, outcome,
                 destLog>>

\* reqRestoreDump up to the choice of the variant
ReqRestoreDump ==
  /\ pc = "start"
  /\ IF req.toDatabase \notin BoundDatabases
     THEN Finish(fail("no such bound database", <<req.toDatabase>>, <<>>))
     ELSE /\ pc' = IF IsTarName(req.name) THEN "tar_open" ELSE "bare_meta"
          /\ UNCHANGED outcome
  /\ UNCHANGED <<createVars, r2Log, assets, srcDb, metaInfo, req, bucket, dstDb, dst0, metadata,
                 fileList, members, loopIdx, cur, result, destLog>>

baseKey == KeyOf(req.fromDatabase, req.name)

Loaded(doc) ==
  [loaded |-> TRUE, loadOrder |-> doc.loadOrder, tables |-> doc.tables]

\* BareFetchMetadata that goes on to the validation without the metadata
BareFetchMetadataUnchecked ==
  /\ pc = "bare_meta"
  /\ r2Log' = Append(r2Log, R2Op("get", KeyOf(baseKey, MetadataJson), 0))
  /\ LET got == r2RawGet(KeyOf(baseKey, MetadataJson))
     IN IF got.found /\ ~got.object.ok
        THEN /\ Finish(throw("SyntaxError"))
             /\ UNCHANGED metadata
        ELSE /\ metadata' = IF got.found THEN Loaded(got.object.value)
                            ELSE metadata
             /\ pc' = "bare_verify"
             /\ UNCHANGED outcome
  /\ loopIdx' = 1
  /\ UNCHANGED <<createVars, assets, srcDb, metaInfo, req, bucket, dstDb,
                 dst0, fileList, members, cur, result, destLog>>

\* performBareFileRestore: r2FetchJSON of metadata.json
BareFetchMetadata ==
  /\ pc = "bare_meta"
  /\ LET got == r2RawGet(KeyOf(baseKey, MetadataJson))
     IN IF ~got.found
        THEN /\ Finish(fail("metadata file not found", <<>>, <<>>))
             /\ UNCHANGED metadata
        ELSE IF ~got.object.ok
        THEN /\ Finish(throw("SyntaxError"))
             /\ UNCHANGED metadata
        ELSE /\ metadata' = Loaded(got.object.value)
             /\ pc' = "bare_verify"
             /\ UNCHANGED outcome
  /\ loopIdx' = 1
  /\ r2Log' = Append(r2Log, R2Op("get", KeyOf(baseKey, MetadataJson), 0))
  /\ UNCHANGED <<createVars, assets, srcDb, metaInfo, req, bucket, dstDb, dst0, fileList,
                 members, cur, result, destLog>>

\* VerifyDestination that reports the existing tables and goes on
VerifyDestinationIgnored ==
  /\ pc \in {"bare_verify", "tar_verify"}
  /\ destLog' = Append(destLog, LogEntry("query", <<>>, TRUE))
  /\ LET v == verifyDbTables(dstDb, metadata)
     IN IF v.err # "none" THEN Finish(throw(v.err))
        ELSE /\ pc' = IF pc = "bare_verify" THEN "bare_loop" ELSE "tar_next"
             /\ UNCHANGED outcome
  /\ UNCHANGED <<createVars, r2Log, assets, srcDb, metaInfo, req, bucket, dstDb, dst0, metadata,
                 fileList, members, loopIdx, cur, result>>

\* both variants: verifyDbTables and the refusal of a restore over existing
\* tables
VerifyDestination ==
  /\ pc \in {"bare_verify", "tar_verify"}
  /\ destLog' = Append(destLog, LogEntry("query", <<>>, TRUE))
  /\ LET v == verifyDbTables(dstDb, metadata)
     IN IF v.err # "none" THEN Finish(throw(v.err))
        ELSE IF Len(v.existing) # 0
        THEN Finish(fail("tables to be restored already exist", <<>>,
                         v.existing))
        ELSE /\ pc' = IF pc = "bare_verify" THEN "bare_loop" ELSE "tar_next"
             /\ UNCHANGED outcome
  /\ UNCHANGED <<createVars, r2Log, assets, srcDb, metaInfo, req, bucket, dstDb, dst0, metadata,
                 fileList, members, loopIdx, cur, result>>

\* BareLoop over the keys of metadata.tables instead of metadata.loadOrder
BareLoopByTableKeys ==
  /\ pc = "bare_loop"
  /\ IF loopIdx > Len(metadata.tables.keys)
     THEN /\ Finish(success("backup restored from file collection"))
          /\ UNCHANGED cur
     ELSE LET name == metadata.tables.keys[loopIdx]
              got == r2RawGet(KeyOf(baseKey, name \o DotJson))
          IN IF ~got.found
             THEN /\ Finish(fail("table data file missing", <<name>>, <<>>))
                  /\ UNCHANGED cur
             ELSE /\ cur' = [active |-> TRUE, table |-> name,
                             stream |-> got.object, data |-> <<>>]
                  /\ pc' = "rt_ddl"
                  /\ UNCHANGED outcome
  /\ r2Log' = IF loopIdx > Len(metadata.tables.keys) THEN r2Log
             ELSE Append(r2Log, R2Op("get",
                    KeyOf(baseKey, metadata.tables.keys[loopIdx] \o DotJson), 0))
  /\ UNCHANGED <<createVars, assets, srcDb, metaInfo, req, bucket, dstDb, dst0, metadata,
                 fileList, members, loopIdx, result, destLog>>

\* BareLoop that skips a table whose data file is missing
BareLoopSkipMissing ==
  /\ pc = "bare_loop"
  /\ r2Log' = IF loopIdx > Len(metadata.loadOrder) THEN r2Log
             ELSE Append(r2Log, R2Op("get",
                    KeyOf(baseKey, metadata.loadOrder[loopIdx] \o DotJson), 0))
  /\ IF loopIdx > Len(metadata.loadOrder)
     THEN /\ Finish(success("backup restored from file collection"))
          /\ UNCHANGED <<cur, loopIdx>>
     ELSE LET name == metadata.loadOrder[loopIdx]
              got == r2RawGet(KeyOf(baseKey, name \o DotJson))
          IN IF ~got.found
             THEN /\ loopIdx' = loopIdx + 1
                  /\ UNCHANGED <<cur, pc, outcome>>
             ELSE /\ cur' = [active |-> TRUE, table |-> name,
                             stream |-> got.object, data |-> <<>>]
                  /\ pc' = "rt_ddl"
                  /\ UNCHANGED <<outcome, loopIdx>>
  /\ UNCHANGED <<createVars, assets, srcDb, metaInfo, req, bucket, dstDb,
                 dst0, metadata, fileList, members, result, destLog>>

\* performBareFileRestore: one turn of the loop over metadata.loadOrder, up
\* to the call of restoreTable
BareLoop ==
  /\ pc = "bare_loop"
  /\ IF loopIdx > Len(metadata.loadOrder)
     THEN /\ Finish(success("backup restored from file collection"))
          /\ UNCHANGED cur
     ELSE LET name == metadata.loadOrder[loopIdx]
              got == r2RawGet(KeyOf(baseKey, name \o DotJson))
          IN IF ~got.found
             THEN /\ Finish(fail("table data file missing", <<name>>, <<>>))
                  /\ UNCHANGED cur
             ELSE /\ cur' = [active |-> TRUE, table |-> name,
                             stream |-> got.object, data |-> <<>>]
                  /\ pc' = "rt_ddl"
                  /\ UNCHANGED outcome
  /\ r2Log' = IF loopIdx > Len(metadata.loadOrder) THEN r2Log
             ELSE Append(r2Log, R2Op("get",
                    KeyOf(baseKey, metadata.loadOrder[loopIdx] \o DotJson), 0))
  /\ UNCHANGED <<createVars, assets, srcDb, metaInfo, req, bucket, dstDb, dst0, metadata,
                 fileList, members, loopIdx, result, destLog>>


(***************************************************************************)
(* D1 as restoreTable uses it: a batch is one transaction.                 *)
(***************************************************************************)
SameName(a, b) == toUpperCase(a) = toUpperCase(b)

\* the statements of a batch run in order: [ok, db]
RECURSIVE ExecDDL(_, _)
ExecDDL(db, stmts) ==
  IF stmts = <<>> THEN [ok |-> TRUE, db |-> db]
  ELSE LET s == Head(stmts)
       IN IF s.stmt = "create_table"
          THEN IF \E t \in DOMAIN db : SameName(t, s.name)
               THEN [ok |-> FALSE, db |-> db]
               ELSE ExecDDL(db @@ (s.name :>
                              [sql |-> s, indexes |-> <<>>,
                               columns |-> s.columns, fks |-> s.fks,
                               rows |-> <<>>]),
                            Tail(stmts))
          ELSE LET owner == {t \in DOMAIN db : SameName(t, s.on)}
                   used == \E t \in DOMAIN db :
                             \E i \in 1..Len(db[t].indexes) :
                               SameName(db[t].indexes[i].name, s.name)
               IN IF owner = {} \/ used THEN [ok |-> FALSE, db |-> db]
                  ELSE LET t == CHOOSE t \in owner : TRUE
                       IN ExecDDL([db EXCEPT ![t].indexes =
                                     Append(@, [name |-> s.name, sql |-> s])],
                                  Tail(stmts))

\* INSERT INTO name (columns) VALUES (?, ...) bound to every row of data:
\* value k of a row goes to column columns[k]
ExecInsert(db, name, columns, data) ==
  LET owner == {t \in DOMAIN db : SameName(t, name)}
      t == CHOOSE t \in owner : TRUE
      valueOf(row, c) ==
        IF \E k \in 1..Len(columns) : columns[k] = c
        THEN row[CHOOSE k \in 1..Len(columns) : columns[k] = c]
        ELSE Null
      stored(row) == [k \in 1..Len(db[t].columns) |->
                        valueOf(row, db[t].columns[k])]
      bindable == /\ Range(columns) \subseteq Range(db[t].columns)
                  /\ \A i \in 1..Len(data) : Len(data[i]) = Len(columns)
  IN IF owner = {} \/ ~bindable THEN [ok |-> FALSE, db |-> db]
     ELSE [ok |-> TRUE,
           db |-> [db EXCEPT ![t].rows =
                     @ \o [i \in 1..Len(data) |-> stored(data[i])]]]

\* AfterRestoreTable that passes over the next entry of loadOrder
AfterRestoreTableSkipNext ==
  /\ pc' = IF IsTarName(req.name) THEN "tar_next" ELSE "bare_loop"
  /\ loopIdx' = IF IsTarName(req.name) THEN loopIdx ELSE loopIdx + 2

\* where the caller of restoreTable continues
AfterRestoreTable ==
  /\ pc' = IF IsTarName(req.name) THEN "tar_next" ELSE "bare_loop"
  /\ loopIdx' = IF IsTarName(req.name) THEN loopIdx ELSE loopIdx + 1

\* restoreTable: the batch that creates the table and its indexes.  The
\* batch fails when D1 refuses a statement, or for a cause outside the model.
RestoreTableCreate ==
  /\ pc = "rt_ddl"
  /\ \E accepted \in BOOLEAN :
       IF ~HasKey(metadata.tables, cur.table)
       THEN /\ Finish(throw("TypeError"))
            /\ UNCHANGED <<dstDb, destLog>>
       ELSE LET table == metadata.tables.val[cur.table]
                DDL == <<table.sql>> \o
                       [i \in 1..Len(table.indexes) |-> table.indexes[i].sql]
                run == ExecDDL(dstDb, DDL)
            IN IF accepted /\ run.ok
               THEN /\ dstDb' = run.db
                    /\ destLog' = Append(destLog,
                                         LogEntry("ddl", cur.table, TRUE))
                    /\ pc' = "rt_parse"
                    /\ UNCHANGED outcome
               ELSE /\ destLog' = Append(destLog,
                                         LogEntry("ddl", cur.table, FALSE))
                    /\ Finish(throw("D1_ERROR"))
                    /\ UNCHANGED dstDb
  /\ UNCHANGED <<createVars, r2Log, assets, srcDb, metaInfo, req, bucket, dst0, metadata, fileList,
                 members, loopIdx, cur, result>>

ResultEntry(table, data) ==
  [name |-> table.name, indexes |-> Len(table.indexes), rows |-> Len(data)]

\* RestoreTableParse that sends the insert batch also when there is no row
RestoreTableParseAlwaysInsert ==
  /\ pc = "rt_parse"
  /\ IF ~cur.stream.ok
     THEN /\ Finish(throw("SyntaxError"))
          /\ UNCHANGED cur
     ELSE /\ cur' = [cur EXCEPT !.data = cur.stream.value]
          /\ pc' = "rt_insert"
          /\ UNCHANGED outcome
  /\ UNCHANGED <<createVars, r2Log, assets, srcDb, metaInfo, req, bucket,
                 dstDb, dst0, metadata, fileList, members, destLog, result,
                 loopIdx>>

\* restoreTable: JSON.parse(await dataStream.text()), and the return when
\* there is no row
RestoreTableParse ==
  /\ pc = "rt_parse"
  /\ IF ~cur.stream.ok
     THEN /\ Finish(throw("SyntaxError"))
          /\ UNCHANGED <<cur, result, loopIdx>>
     ELSE LET data == cur.stream.value
          IN IF Len(data) = 0
             THEN /\ result' = Append(result,
                      ResultEntry(metadata.tables.val[cur.table], data))
                  /\ AfterRestoreTable
                  /\ UNCHANGED <<cur, outcome>>
             ELSE /\ cur' = [cur EXCEPT !.data = data]
                  /\ pc' = "rt_insert"
                  /\ UNCHANGED <<result, outcome, loopIdx>>
  /\ UNCHANGED <<createVars, r2Log, assets, srcDb, metaInfo, req, bucket, dstDb, dst0, metadata,
                 fileList, members, destLog>>

\* RestoreTableInsert that drops the table when the insert batch fails
RestoreTableInsertWithRollback ==
  /\ pc = "rt_insert"
  /\ \E accepted \in BOOLEAN :
       LET table == metadata.tables.val[cur.table]
           run == ExecInsert(dstDb, table.name, table.columns, cur.data)
       IN IF accepted /\ run.ok
          THEN /\ dstDb' = run.db
               /\ destLog' = Append(destLog,
                                    LogEntry("insert", cur.table, TRUE))
               /\ result' = Append(result, ResultEntry(table, cur.data))
               /\ AfterRestoreTable
               /\ UNCHANGED outcome
          ELSE /\ destLog' = Append(destLog,
                                    LogEntry("insert", cur.table, FALSE))
               /\ Finish(throw("D1_ERROR"))
               /\ dstDb' = [t \in DOMAIN dstDb \ {cur.table} |-> dstDb[t]]
               /\ UNCHANGED <<result, loopIdx>>
  /\ UNCHANGED <<createVars, r2Log, assets, srcDb, metaInfo, req, bucket, dst0, metadata, fileList,
                 members, cur>>

\* restoreTable: the batch that inserts the rows, and the return
RestoreTableInsert ==
  /\ pc = "rt_insert"
  /\ \E accepted \in BOOLEAN :
       LET table == metadata.tables.val[cur.table]
           run == ExecInsert(dstDb, table.name, table.columns, cur.data)
       IN IF accepted /\ run.ok
          THEN /\ dstDb' = run.db
               /\ destLog' = Append(destLog,
                                    LogEntry("insert", cur.table, TRUE))
               /\ result' = Append(result, ResultEntry(table, cur.data))
               /\ AfterRestoreTable
               /\ UNCHANGED outcome
          ELSE /\ destLog' = Append(destLog,
                                    LogEntry("insert", cur.table, FALSE))
               /\ Finish(throw("D1_ERROR"))
               /\ UNCHANGED <<dstDb, result, loopIdx>>
  /\ UNCHANGED <<createVars, r2Log, assets, srcDb, metaInfo, req, bucket, dst0, metadata, fileList,
                 members, cur>>


(***************************************************************************)
(* performTarRestore.  The archive is read forward, one member per turn of  *)
(* the loop; members keeps the headers of the members read so far.          *)
(***************************************************************************)
TAR_OBJECT_TYPE_FILE == "file"

Member(type, name, body) == [type |-> type, name |-> name, body |-> body]
Header(m) == [type |-> m.type, name |-> m.name]

\* getTarStream: null unless the key names a tarball that is in the bucket
getTarStream(key) ==
  IF ~endsWith(key, DotTar) /\ ~endsWith(key, DotTgz) THEN FALSE
  ELSE r2RawGet(key).found

TarOpen ==
  /\ pc = "tar_open"
  /\ IF ~getTarStream(baseKey)
     THEN Finish(fail("not a valid tar file", <<baseKey>>, <<>>))
     ELSE /\ pc' = "tar_next"
          /\ UNCHANGED outcome
  /\ fileList' = <<MetadataJson>>
  /\ r2Log' = Append(r2Log, R2Op("get", baseKey, 0))
  /\ UNCHANGED <<createVars, assets, srcDb, metaInfo, req, bucket, dstDb, dst0, metadata,
                 members, loopIdx, cur, result, destLog>>

\* isFile without the test of the member type
isFileNameOnly(m, name) == m.name = name

\* the expected list without the extension of the data files
ExpectedMembersBare(loadOrder) == loadOrder

\* metadata.loadOrder.map(e => `${e}.json`)
ExpectedMembers(loadOrder) ==
  [i \in 1..Len(loadOrder) |-> loadOrder[i] \o DotJson]

\* the inline helper isFile; fileList[0] of an empty list is undefined
isFile(m, name) == m.type = TAR_OBJECT_TYPE_FILE /\ m.name = name
FirstOf(list) == IF Len(list) = 0 THEN Undefined ELSE list[1]

\* the extractor has no further member: the loop ends
TarEnd ==
  /\ pc = "tar_next"
  /\ Finish(success("backup restored from tarball"))
  /\ UNCHANGED <<createVars, r2Log, assets, srcDb, metaInfo, req, bucket, dstDb, dst0, metadata,
                 fileList, members, loopIdx, cur, result, destLog>>

\* TarMember without the test that metadata.tables names the table
TarMemberUnchecked(m) ==
  /\ pc = "tar_next"
  /\ Len(members) < MaxMembers
  /\ members' = Append(members, Header(m))
  /\ IF ~isFile(m, FirstOf(fileList))
     THEN /\ Finish(fail("unexpected file", <<m.name, FirstOf(fileList)>>,
                         <<>>))
          /\ UNCHANGED <<fileList, metadata, cur>>
     ELSE IF ~metadata.loaded
     THEN IF ~m.body.ok
          THEN /\ Finish(throw("SyntaxError"))
               /\ fileList' = Tail(fileList)
               /\ UNCHANGED <<metadata, cur>>
          ELSE /\ metadata' = Loaded(m.body.value)
               /\ fileList' = ExpectedMembers(m.body.value.loadOrder)
               /\ pc' = "tar_verify"
               /\ UNCHANGED <<outcome, cur>>
     ELSE /\ fileList' = Tail(fileList)
          /\ cur' = [active |-> TRUE, table |-> SplitDot0(m.name),
                     stream |-> m.body, data |-> <<>>]
          /\ pc' = "rt_ddl"
          /\ UNCHANGED <<metadata, outcome>>
  /\ UNCHANGED <<createVars, r2Log, assets, srcDb, metaInfo, req, bucket,
                 dstDb, dst0, loopIdx, result, destLog>>

\* TarMember that passes over a member read after the expected list is empty
TarMemberSkipsTrailing(m) ==
  IF metadata.loaded /\ fileList = <<>>
  THEN /\ pc = "tar_next"
       /\ Len(members) < MaxMembers
       /\ members' = Append(members, Header(m))
       /\ UNCHANGED <<createVars, r2Log, assets, srcDb, metaInfo, req, bucket,
                      dstDb, dst0, pc, metadata, fileList, loopIdx, cur,
                      result, outcome, destLog>>
  ELSE
  /\ pc = "tar_next"
  /\ Len(members) < MaxMembers
  /\ members' = Append(members, Header(m))
  /\ IF ~isFile(m, FirstOf(fileList))
     THEN /\ Finish(fail("unexpected file", <<m.name, FirstOf(fileList)>>,
                         <<>>))
          /\ UNCHANGED <<fileList, metadata, cur>>
     ELSE IF ~metadata.loaded
     THEN IF ~m.body.ok
          THEN /\ Finish(throw("SyntaxError"))
               /\ fileList' = Tail(fileList)
               /\ UNCHANGED <<metadata, cur>>
          ELSE /\ metadata' = Loaded(m.body.value)
               /\ fileList' = ExpectedMembers(m.body.value.loadOrder)
               /\ pc' = "tar_verify"
               /\ UNCHANGED <<outcome, cur>>
     ELSE LET tableName == SplitDot0(m.name)
          IN /\ fileList' = Tail(fileList)
             /\ UNCHANGED metadata
             /\ IF ~HasKey(metadata.tables, tableName)
                THEN /\ Finish(fail("metadata.json does not mention table",
                                    <<tableName>>, <<>>))
                     /\ UNCHANGED cur
                ELSE /\ cur' = [active |-> TRUE, table |-> tableName,
                                stream |-> m.body, data |-> <<>>]
                     /\ pc' = "rt_ddl"
                     /\ UNCHANGED outcome
  /\ UNCHANGED <<createVars, r2Log, assets, srcDb, metaInfo, req, bucket, dstDb, dst0, loopIdx, result,
                 destLog>>

\* the extractor yields the member m: the body of the loop up to the next
\* await on the database
TarMember(m) ==
  /\ pc = "tar_next"
  /\ Len(members) < MaxMembers
  /\ members' = Append(members, Header(m))
  /\ IF ~isFile(m, FirstOf(fileList))
     THEN /\ Finish(fail("unexpected file", <<m.name, FirstOf(fileList)>>,
                         <<>>))
          /\ UNCHANGED <<fileList, metadata, cur>>
     ELSE IF ~metadata.loaded
     THEN IF ~m.body.ok
          THEN /\ Finish(throw("SyntaxError"))
               /\ fileList' = Tail(fileList)
               /\ UNCHANGED <<metadata, cur>>
          ELSE /\ metadata' = Loaded(m.body.value)
               /\ fileList' = ExpectedMembers(m.body.value.loadOrder)
               /\ pc' = "tar_verify"
               /\ UNCHANGED <<outcome, cur>>
     ELSE LET tableName == SplitDot0(m.name)
          IN /\ fileList' = Tail(fileList)
             /\ UNCHANGED metadata
             /\ IF ~HasKey(metadata.tables, tableName)
                THEN /\ Finish(fail("metadata.json does not mention table",
                                    <<tableName>>, <<>>))
                     /\ UNCHANGED cur
                ELSE /\ cur' = [active |-> TRUE, table |-> tableName,
                                stream |-> m.body, data |-> <<>>]
                     /\ pc' = "rt_ddl"
                     /\ UNCHANGED outcome
  /\ UNCHANGED <<createVars, r2Log, assets, srcDb, metaInfo, req, bucket, dstDb, dst0, loopIdx, result,
                 destLog>>

(***************************************************************************)
(* The earlier revision of the random-access restore (restore.js lines      *)
(* 346-508): reqRestoreDump validates inline, checks that every data file   *)
(* exists before it creates a table, and restoreTable fetches and decodes   *)
(* the data file itself, before the DDL.                                    *)
(***************************************************************************)
\* r2KeyExists: R2.head(key) is null when the bucket has no such key
r2KeyExists(key) == key \in DOMAIN bucket

\* r2FetchJSON: [found, ok, value]; ok is false when the body is no JSON text
\* (r2Object.json() rejects)
r2FetchJSON(key) ==
  LET got == r2RawGet(key)
  IN [found |-> got.found, ok |-> got.found /\ got.object.ok,
      value |-> got.object.value]

\* reqRestoreDump up to the fetch of the metadata
PreflightReqRestoreDump ==
  /\ pc = "pf_start"
  /\ IF req.toDatabase \notin BoundDatabases
     THEN Finish(fail("no such bound database", <<req.toDatabase>>, <<>>))
     ELSE /\ pc' = "pf_meta"
          /\ UNCHANGED outcome
  /\ UNCHANGED <<createVars, r2Log, assets, srcDb, metaInfo, req, bucket,
                 dstDb, dst0, metadata, fileList, members, loopIdx, cur,
                 result, destLog>>

\* step 1: r2FetchJSON of metadata.json
PreflightFetchMetadata ==
  /\ pc = "pf_meta"
  /\ r2Log' = Append(r2Log, R2Op("get", KeyOf(baseKey, MetadataJson), 0))
  /\ LET got == r2FetchJSON(KeyOf(baseKey, MetadataJson))
     IN IF ~got.found
        THEN /\ Finish(fail("metadata file not found", <<>>, <<>>))
             /\ UNCHANGED metadata
        ELSE IF ~got.ok
        THEN /\ Finish(throw("SyntaxError"))
             /\ UNCHANGED metadata
        ELSE /\ metadata' = Loaded(got.value)
             /\ pc' = "pf_verify"
             /\ UNCHANGED outcome
  /\ UNCHANGED <<createVars, assets, srcDb, metaInfo, req, bucket, dstDb,
                 dst0, fileList, members, loopIdx, cur, result, destLog>>

\* step 2: the tables of the destination that the metadata names
PreflightVerify ==
  /\ pc = "pf_verify"
  /\ destLog' = Append(destLog, LogEntry("query", <<>>, TRUE))
  /\ LET currentData == dbBkpGetTableList(dstDb)
         existing == SelectSeq(currentData.list.keys,
                               LAMBDA e : HasKey(metadata.tables, e))
     IN IF currentData.err # "none" THEN Finish(throw(currentData.err))
        ELSE IF Len(existing) # 0
        THEN Finish(fail("tables to be restored already exist", <<>>,
                         existing))
        ELSE /\ pc' = "pf_assets"
             /\ UNCHANGED outcome
  /\ UNCHANGED <<createVars, r2Log, assets, srcDb, metaInfo, req, bucket,
                 dstDb, dst0, metadata, fileList, members, loopIdx, cur,
                 result>>

\* step 3: one of the concurrent existence checks settles; assets maps the
\* positions of loadOrder checked so far to [name, metadata], metadata being
\* Null when the key is not in the bucket
PreflightAssetCheck(i) ==
  /\ pc = "pf_assets"
  /\ i \in 1..Len(metadata.loadOrder)
  /\ i \notin DOMAIN assets
  /\ LET name == metadata.loadOrder[i]
         assetKey == KeyOf(baseKey, name \o DotJson)
     IN /\ r2Log' = Append(r2Log, R2Op("head", assetKey, 0))
        /\ assets' = assets @@
             (i :> [name |-> name,
                    metadata |-> IF r2KeyExists(assetKey) THEN "object"
                                 ELSE Null])
  /\ UNCHANGED <<createVars, srcDb, metaInfo, req, bucket, dstDb, dst0, pc,
                 metadata, fileList, members, loopIdx, cur, result, outcome,
                 destLog>>

\* the names of the settled checks that found no object, in loadOrder order
MissingAssets(settled) ==
  LET all == [i \in 1..Len(metadata.loadOrder) |-> settled[i]]
      miss == SelectSeq(all, LAMBDA e : e.metadata = Null)
  IN [i \in 1..Len(miss) |-> miss[i].name]

\* PreflightJoin that goes on as soon as the first check has settled
PreflightJoinFirstSettled ==
  /\ pc = "pf_assets"
  /\ (DOMAIN assets # {} \/ Len(metadata.loadOrder) = 0)
  /\ LET first == CHOOSE i \in DOMAIN assets : TRUE
         missing == IF DOMAIN assets = {} \/ assets[first].metadata # Null
                    THEN <<>> ELSE <<assets[first].name>>
     IN IF Len(missing) # 0
        THEN /\ Finish(fail("table data files are missing", <<>>, missing))
             /\ UNCHANGED loopIdx
        ELSE /\ pc' = "pf_loop"
             /\ loopIdx' = 1
             /\ UNCHANGED outcome
  /\ UNCHANGED <<createVars, r2Log, assets, srcDb, metaInfo, req, bucket,
                 dstDb, dst0, metadata, fileList, members, cur, result,
                 destLog>>

\* step 3, after Promise.allSettled: every check has settled; the restore is
\* refused with the names of the missing data files
PreflightJoin ==
  /\ pc = "pf_assets"
  /\ DOMAIN assets = 1..Len(metadata.loadOrder)
  /\ LET missing == MissingAssets(assets)
     IN IF Len(missing) # 0
        THEN /\ Finish(fail("table data files are missing", <<>>, missing))
             /\ UNCHANGED loopIdx
        ELSE /\ pc' = "pf_loop"
             /\ loopIdx' = 1
             /\ UNCHANGED outcome
  /\ UNCHANGED <<createVars, r2Log, assets, srcDb, metaInfo, req, bucket,
                 dstDb, dst0, metadata, fileList, members, cur, result,
                 destLog>>

\* step 4: one turn of the loop over metadata.loadOrder, and restoreTable up
\* to its first batch: the data file is fetched and decoded
PreflightLoop ==
  /\ pc = "pf_loop"
  /\ IF loopIdx > Len(metadata.loadOrder)
     THEN /\ Finish(success("backup restored"))
          /\ UNCHANGED <<cur, r2Log>>
     ELSE LET name == metadata.loadOrder[loopIdx]
              key == KeyOf(baseKey, name \o DotJson)
              data == r2FetchJSON(key)
          IN /\ r2Log' = Append(r2Log, R2Op("get", key, 0))
             /\ IF ~data.found
                THEN /\ Finish(fail("unable to restore backup", <<name>>,
                                    <<>>))
                     /\ UNCHANGED cur
                ELSE IF ~data.ok
                THEN /\ Finish(throw("SyntaxError"))
                     /\ UNCHANGED cur
                ELSE /\ cur' = [active |-> TRUE, table |-> name,
                                stream |-> JsonObj(data.value),
                                data |-> data.value]
                     /\ pc' = "pf_ddl"
                     /\ UNCHANGED outcome
  /\ UNCHANGED <<createVars, assets, srcDb, metaInfo, req, bucket, dstDb,
                 dst0, metadata, fileList, members, loopIdx, result, destLog>>

\* restoreTable: the batch that creates the table and its indexes, and the
\* return when there is no row
PreflightRestoreTableCreate ==
  /\ pc = "pf_ddl"
  /\ \E accepted \in BOOLEAN :
       LET table == metadata.tables.val[cur.table]
           DDL == <<table.sql>> \o
                  [i \in 1..Len(table.indexes) |-> table.indexes[i].sql]
           run == ExecDDL(dstDb, DDL)
       IN IF ~(accepted /\ run.ok)
          THEN /\ destLog' = Append(destLog, LogEntry("ddl", cur.table, FALSE))
               /\ Finish(throw("D1_ERROR"))
               /\ UNCHANGED <<dstDb, result, loopIdx>>
          ELSE /\ dstDb' = run.db
               /\ destLog' = Append(destLog, LogEntry("ddl", cur.table, TRUE))
               /\ UNCHANGED outcome
               /\ IF Len(cur.data) = 0
                  THEN /\ result' = Append(result, ResultEntry(table, cur.data))
                       /\ loopIdx' = loopIdx + 1
                       /\ pc' = "pf_loop"
                  ELSE /\ pc' = "pf_insert"
                       /\ UNCHANGED <<result, loopIdx>>
  /\ UNCHANGED <<createVars, r2Log, assets, srcDb, metaInfo, req, bucket,
                 dst0, metadata, fileList, members, cur>>

\* restoreTable: the batch that inserts the rows, and the return
PreflightRestoreTableInsert ==
  /\ pc = "pf_insert"
  /\ \E accepted \in BOOLEAN :
       LET table == metadata.tables.val[cur.table]
           run == ExecInsert(dstDb, table.name, table.columns, cur.data)
       IN IF accepted /\ run.ok
          THEN /\ dstDb' = run.db
               /\ destLog' = Append(destLog,
                                    LogEntry("insert", cur.table, TRUE))
               /\ result' = Append(result, ResultEntry(table, cur.data))
               /\ loopIdx' = loopIdx + 1
               /\ pc' = "pf_loop"
               /\ UNCHANGED outcome
          ELSE /\ destLog' = Append(destLog,
                                    LogEntry("insert", cur.table, FALSE))
               /\ Finish(throw("D1_ERROR"))
               /\ UNCHANGED <<dstDb, result, loopIdx>>
  /\ UNCHANGED <<createVars, r2Log, assets, srcDb, metaInfo, req, bucket,
                 dst0, metadata, fileList, members, cur>>

\* another party deletes a data file of the backup while the tables are
\* being restored, after the pre-flight check has passed
ObjectLost(key) ==
  /\ pc = "pf_loop"
  /\ key \in DOMAIN bucket
  /\ key # KeyOf(baseKey, MetadataJson)
  /\ bucket' = [k \in DOMAIN bucket \ {key} |-> bucket[k]]
  /\ UNCHANGED <<createVars, r2Log, assets, srcDb, metaInfo, req, dstDb, dst0,
                 pc, metadata, fileList, members, loopIdx, cur, result,
                 outcome, destLog>>

(***************************************************************************)
(* The backup-create request (create.js) and the tracking table            *)
(* (dbBkpInsert).  cr[c] is the call of client c:                           *)
(*   [pc, req, metadata, idx, tables, data, record, outcome]                *)
(***************************************************************************)
\* ctx.env[name]: the database bound under the name
Env(name) == IF name = <<"d">> THEN srcDb ELSE dstDb

\* the position of column c in the table definition
ColumnIndex(columns, c) == CHOOSE k \in 1..Len(columns) : columns[k] = c

\* dbBkpGetTableContents that selects the columns in the reverse order
dbBkpGetTableContentsReversed(db, tableInfo) ==
  LET stored == db[tableInfo.name]
      n == Len(tableInfo.columns)
  IN [r \in 1..Len(stored.rows) |->
        [k \in 1..n |->
           stored.rows[r][ColumnIndex(stored.columns,
                                      tableInfo.columns[n + 1 - k])]]]

\* dbBkpGetTableContents: SELECT columns FROM name, as raw rows: value k of a
\* row is the value of column tableInfo.columns[k]
dbBkpGetTableContents(db, tableInfo) ==
  LET stored == db[tableInfo.name]
  IN [r \in 1..Len(stored.rows) |->
        [k \in 1..Len(tableInfo.columns) |->
           stored.rows[r][ColumnIndex(stored.columns, tableInfo.columns[k])]]]

\* r2StoreJson that keeps the object a key already holds
r2StoreJsonIfAbsent(b, key, obj) ==
  [k \in DOMAIN b \cup {key} |-> IF k \in DOMAIN b THEN b[k] ELSE JsonObj(obj)]

\* R2.put(key, JSON.stringify(obj))
r2StoreJson(b, key, obj) ==
  [k \in DOMAIN b \cup {key} |-> IF k = key THEN JsonObj(obj) ELSE b[k]]

keyPrefix(c) == KeyOf(cr[c].req.fromDatabase, cr[c].req.name)

\* a backup-create request of client c arrives
CreateRequest(c, fromDatabase, name) ==
  /\ cr[c].pc = "idle"
  /\ cr' = [cr EXCEPT ![c].pc = "start",
                      ![c].req = [fromDatabase |-> fromDatabase,
                                  name |-> name]]
  /\ UNCHANGED <<tracking, srcDb, metaInfo, restoreVars>>

CreateFinish(c, o) ==
  cr' = [cr EXCEPT ![c].pc = "done", ![c].outcome = o]

\* ReqCreateDump without the test of the binding
ReqCreateDumpUnchecked(c) ==
  /\ cr[c].pc = "start"
  /\ cr' = [cr EXCEPT ![c].pc = "meta"]
  /\ UNCHANGED <<tracking, srcDb, metaInfo, restoreVars>>

\* reqCreateDump up to the call of dbBkpGenerateMetaInfo
ReqCreateDump(c) ==
  /\ cr[c].pc = "start"
  /\ IF cr[c].req.fromDatabase \notin BoundDatabases
     THEN CreateFinish(c, fail("no such bound database",
                               <<cr[c].req.fromDatabase>>, <<>>))
     ELSE cr' = [cr EXCEPT ![c].pc = "meta"]
  /\ UNCHANGED <<tracking, srcDb, metaInfo, restoreVars>>

\* CreateMetaInfo that refuses a database without tables
CreateMetaInfoRefusesEmpty(c) ==
  /\ cr[c].pc = "meta"
  /\ LET mi == dbBkpGenerateMetaInfo(Env(cr[c].req.fromDatabase))
     IN IF mi.err # "none" THEN CreateFinish(c, throw(mi.err))
        ELSE IF Len(mi.loadOrder) = 0
        THEN CreateFinish(c, fail("no tables", <<>>, <<>>))
        ELSE cr' = [cr EXCEPT ![c].pc = "put_meta", ![c].metadata = mi]
  /\ UNCHANGED <<tracking, srcDb, metaInfo, restoreVars>>

\* await dbBkpGenerateMetaInfo(fromDb); an exception leaves the handler
CreateMetaInfo(c) ==
  /\ cr[c].pc = "meta"
  /\ LET mi == dbBkpGenerateMetaInfo(Env(cr[c].req.fromDatabase))
     IN IF mi.err # "none" THEN CreateFinish(c, throw(mi.err))
        ELSE cr' = [cr EXCEPT ![c].pc = "put_meta", ![c].metadata = mi]
  /\ UNCHANGED <<tracking, srcDb, metaInfo, restoreVars>>

\* AfterStore that records the backup after the first write
AfterStoreEarly(mi, idx) == "ins_check"

\* where the handler continues after the write at position idx - 1
AfterStore(mi, idx) ==
  IF idx > Len(mi.loadOrder) THEN "ins_check" ELSE "fetch"

\* await r2StoreJson(metadata.json); the write may be refused by R2
CreateStoreMetadata(c) ==
  /\ cr[c].pc = "put_meta"
  /\ LET key == KeyOf(keyPrefix(c), MetadataJson)
     IN /\ r2Log' = Append(r2Log, R2Op("put", key, c))
        /\ \E stored \in BOOLEAN :
             IF stored
             THEN /\ bucket' = r2StoreJson(bucket, key,
                                           MetadataDoc(cr[c].metadata))
                  /\ cr' = [cr EXCEPT ![c].idx = 1,
                              ![c].pc = AfterStore(cr[c].metadata, 1)]
             ELSE /\ CreateFinish(c, throw("R2_ERROR"))
                  /\ UNCHANGED bucket
  /\ UNCHANGED <<tracking, srcDb, metaInfo, req, dstDb, dst0, pc, metadata,
                 fileList, members, loopIdx, cur, result, outcome, destLog,
                 assets>>

\* one turn of the loop: await dbBkpGetTableContents and the entry of the
\* result; the query may be refused by D1
CreateFetchTable(c) ==
  /\ cr[c].pc = "fetch"
  /\ LET mi == cr[c].metadata
         table == mi.tables.val[mi.loadOrder[cr[c].idx]]
         data == dbBkpGetTableContents(Env(cr[c].req.fromDatabase), table)
     IN \E answered \in BOOLEAN :
          IF answered
          THEN cr' = [cr EXCEPT
                 ![c].pc = "put_table",
                 ![c].data = data,
                 ![c].tables = Append(@,
                    [name |-> table.name, indexes |-> Len(table.indexes),
                     rows |-> Len(data), columns |-> table.columns])]
          ELSE CreateFinish(c, throw("D1_ERROR"))
  /\ UNCHANGED <<tracking, srcDb, metaInfo, restoreVars>>

\* await r2StoreJson of the table data, and the next turn of the loop
CreateStoreTable(c) ==
  /\ cr[c].pc = "put_table"
  /\ LET mi == cr[c].metadata
         key == KeyOf(keyPrefix(c), mi.loadOrder[cr[c].idx] \o DotJson)
     IN /\ r2Log' = Append(r2Log, R2Op("put", key, c))
        /\ \E stored \in BOOLEAN :
             IF stored
             THEN /\ bucket' = r2StoreJson(bucket, key, cr[c].data)
                  /\ cr' = [cr EXCEPT ![c].idx = @ + 1,
                              ![c].pc = AfterStore(mi, cr[c].idx + 1)]
             ELSE /\ CreateFinish(c, throw("R2_ERROR"))
                  /\ UNCHANGED bucket
  /\ UNCHANGED <<tracking, srcDb, metaInfo, req, dstDb, dst0, pc, metadata,
                 fileList, members, loopIdx, cur, result, outcome, destLog,
                 assets>>

\* the check that always finds no record
existingQueryNone(rows, fromDatabase, name) == <<>>

\* dbBkpInsert: SELECT id, dbName, backupName FROM BackupList
\*              WHERE dbName = ?1 AND backupName = ?2
existingQuery(rows, fromDatabase, name) ==
  SelectSeq(rows, LAMBDA r : r.dbName = fromDatabase /\ r.backupName = name)

\* result.meta.last_row_id of an INSERT INTO BackupList
last_row_id(rows) ==
  IF rows = <<>> THEN 1
  ELSE 1 + (CHOOSE m \in {rows[i].id : i \in 1..Len(rows)} :
              \A i \in 1..Len(rows) : rows[i].id <= m)

\* the response of reqCreateDump once dbBkpInsert has returned
Created(c) == success("created a dump")

\* CreateInsertCheck that replaces the existing record by a new one
CreateInsertCheckReplace(c) ==
  /\ cr[c].pc = "ins_check"
  /\ LET existing == existingQuery(tracking, cr[c].req.fromDatabase,
                                   cr[c].req.name)
         record == [id |-> last_row_id(tracking),
                    dbName |-> cr[c].req.fromDatabase,
                    backupName |-> cr[c].req.name]
     IN IF Len(existing) # 0
        THEN /\ tracking' = [i \in 1..Len(tracking) |->
                               IF tracking[i] = existing[1] THEN record
                               ELSE tracking[i]]
             /\ cr' = [cr EXCEPT ![c].pc = "done",
                                 ![c].record = <<record>>,
                                 ![c].outcome = Created(c)]
        ELSE /\ cr' = [cr EXCEPT ![c].pc = "ins_insert"]
             /\ UNCHANGED tracking
  /\ UNCHANGED <<srcDb, metaInfo, restoreVars>>

\* dbBkpInsert up to the insert: an existing record is returned as it is
CreateInsertCheck(c) ==
  /\ cr[c].pc = "ins_check"
  /\ LET existing == existingQuery(tracking, cr[c].req.fromDatabase,
                                   cr[c].req.name)
     IN IF Len(existing) # 0
        THEN cr' = [cr EXCEPT ![c].pc = "done",
                              ![c].record = <<existing[1]>>,
                              ![c].outcome = Created(c)]
        ELSE cr' = [cr EXCEPT ![c].pc = "ins_insert"]
  /\ UNCHANGED <<tracking, srcDb, metaInfo, restoreVars>>

\* dbBkpInsert: INSERT INTO BackupList (dbName, backupName), and the return
\* of the new record
CreateInsertRow(c) ==
  /\ cr[c].pc = "ins_insert"
  /\ LET record == [id |-> last_row_id(tracking),
                    dbName |-> cr[c].req.fromDatabase,
                    backupName |-> cr[c].req.name]
     IN /\ tracking' = Append(tracking, record)
        /\ cr' = [cr EXCEPT ![c].pc = "done",
                            ![c].record = <<record>>,
                            ![c].outcome = Created(c)]
  /\ UNCHANGED <<srcDb, metaInfo, restoreVars>>

\* the steps of the backup-create call of client c
CreateStep(c) ==
  \/ ReqCreateDump(c)
  \/ CreateMetaInfo(c)
  \/ CreateStoreMetadata(c)
  \/ CreateFetchTable(c)
  \/ CreateStoreTable(c)
  \/ CreateInsertCheck(c)
  \/ CreateInsertRow(c)

(***************************************************************************)
(* SpecRestore: one restore request, of either variant, against a bucket   *)
(* that holds a backup (or parts of one) and a destination that may hold    *)
(* tables already.                                                          *)
(***************************************************************************)
\* the metadata documents of the backups of the databases whose tables
\* declare at most one foreign key
BackupDocs ==
  LET infos == {dbBkpGenerateMetaInfo(db) : db \in Schemas(TableNames, 1)}
  IN {MetadataDoc(mi) : mi \in {x \in infos : x.err = "none"}}

\* what the data file of a table may hold
Payloads == {BadJson, JsonObj(<<>>), JsonObj(Rows(MaxRows))}

\* the members an archive may hold
ArchiveMembers ==
  LET dataNames == {t \o DotJson : t \in TableNames \cup {nP}}
  IN {Member("file", MetadataJson, b) :
        b \in {JsonObj(d) : d \in BackupDocs} \cup {BadJson}}
     \cup {Member("file", n, b) : n \in dataNames, b \in Payloads}
     \cup {Member("directory", n, BadJson) :
             n \in dataNames \cup {MetadataJson}}

\* a table the destination holds before the restore
OldTable(t) ==
  [sql |-> TableSql(t, <<"old">>, <<>>), indexes |-> <<>>,
   columns |-> <<"old">>, fks |-> <<>>, rows |-> <<<<0>>>>]

Destinations == {[t \in S |-> OldTable(t)] : S \in SUBSET {nA, nB, nP}}

\* names that hold a tar suffix elsewhere than at the end, or nothing else
OddNames == {<<"t", "a", "r">>, <<"b">> \o DotTar \o <<"b">>, DotTgz}

RestoreNames == {<<"b">>, <<"b">> \o DotTar, <<"b">> \o DotTgz} \cup OddNames

\* the buckets a restore of the backup d/name may find
Buckets(name) ==
  LET base == KeyOf(<<"d">>, name)
      files(doc, f) ==
        [k \in {KeyOf(base, MetadataJson)}
                 \cup {KeyOf(base, t \o DotJson) : t \in DOMAIN f} |->
           IF k = KeyOf(base, MetadataJson) THEN JsonObj(doc)
           ELSE f[CHOOSE t \in DOMAIN f : k = KeyOf(base, t \o DotJson)]]
      \* the data files of the tables S without the metadata file
      orphans(S) ==
        [k \in {KeyOf(base, t \o DotJson) : t \in S} |->
           JsonObj(Rows(MaxRows))]
      \* a backup with the data file of every table
      whole(doc) ==
        files(doc, [t \in Range(doc.loadOrder) |-> JsonObj(Rows(MaxRows))])
  IN IF IsTarName(name) THEN {<<>>, [k \in {base} |-> TarObj]}
     ELSE IF name \in OddNames
     THEN {<<>>} \cup {whole(doc) : doc \in BackupDocs}
     ELSE {<<>>, [k \in {KeyOf(base, MetadataJson)} |-> BadJson]}
          \cup {orphans(S) : S \in SUBSET TableNames}
          \cup UNION {UNION {{files(doc, f) : f \in [S -> Payloads]} :
                               S \in SUBSET Range(doc.loadOrder)} :
                        doc \in BackupDocs}

InitRestore ==
  /\ srcDb = <<>>
  /\ metaInfo = NoMetaInfo
  /\ \E name \in RestoreNames, to \in {<<"t">>, <<"x">>} :
       /\ req = [fromDatabase |-> <<"d">>, toDatabase |-> to, name |-> name]
       /\ bucket \in Buckets(name)
  /\ dstDb \in Destinations
  /\ dst0 = dstDb
  /\ pc = "start"
  /\ metadata = NoMetadata
  /\ fileList = <<>>
  /\ members = <<>>
  /\ loopIdx = 0
  /\ cur = NoCur
  /\ result = <<>>
  /\ outcome = NoOutcome
  /\ destLog = <<>>
  /\ r2Log = <<>>
  /\ assets = <<>>
  /\ CreateIdle

NextRestore ==
  \/ ReqRestoreDump
  \/ BareFetchMetadata
  \/ VerifyDestination
  \/ BareLoop
  \/ RestoreTableCreate
  \/ RestoreTableParse
  \/ RestoreTableInsert
  \/ TarOpen
  \/ TarEnd
  \/ \E m \in ArchiveMembers : TarMember(m)

SpecRestore == InitRestore /\ [][NextRestore]_vars


(***************************************************************************)
(* SpecArchive: one sequential restore of an archive that another tool     *)
(* has written; its metadata.json may list in loadOrder a table that its   *)
(* tables do not describe.                                                  *)
(***************************************************************************)
\* metadata whose loadOrder ends with the table P that tables does not hold
InconsistentDocs ==
  {[loadOrder |-> Append(d.loadOrder, nP), tables |-> d.tables] :
     d \in {x \in BackupDocs : Len(x.loadOrder) <= 1}}

InitArchive ==
  /\ srcDb = <<>>
  /\ metaInfo = NoMetaInfo
  /\ req = [fromDatabase |-> <<"d">>, toDatabase |-> <<"t">>,
            name |-> <<"b">> \o DotTar]
  /\ bucket = [k \in {KeyOf(<<"d">>, <<"b">> \o DotTar)} |-> TarObj]
  /\ dstDb \in {<<>>, [t \in {nP} |-> OldTable(t)]}
  /\ dst0 = dstDb
  /\ pc = "start"
  /\ metadata = NoMetadata
  /\ fileList = <<>>
  /\ members = <<>>
  /\ loopIdx = 0
  /\ cur = NoCur
  /\ result = <<>>
  /\ outcome = NoOutcome
  /\ destLog = <<>>
  /\ r2Log = <<>>
  /\ assets = <<>>
  /\ CreateIdle

NextArchive ==
  \/ ReqRestoreDump
  \/ TarOpen
  \/ VerifyDestination
  \/ RestoreTableCreate
  \/ RestoreTableParse
  \/ RestoreTableInsert
  \/ TarEnd
  \/ \E m \in ArchiveMembers : TarMember(m)
  \/ \E d \in InconsistentDocs : TarMember(Member("file", MetadataJson, JsonObj(d)))

SpecArchive == InitArchive /\ [][NextArchive]_vars

(***************************************************************************)
(* SpecRandomAccess: one random-access restore request, served by the      *)
(* current revision of reqRestoreDump or by the earlier one with the       *)
(* pre-flight check.                                                        *)
(***************************************************************************)
\* the keys of the data files of the backup d/b
DataKeys == {KeyOf(KeyOf(<<"d">>, <<"b">>), t \o DotJson) : t \in TableNames}

InitRandomAccess ==
  /\ srcDb = <<>>
  /\ metaInfo = NoMetaInfo
  /\ \E to \in {<<"t">>, <<"x">>} :
       req = [fromDatabase |-> <<"d">>, toDatabase |-> to, name |-> <<"b">>]
  /\ bucket \in Buckets(<<"b">>)
  /\ dstDb \in Destinations
  /\ dst0 = dstDb
  /\ pc \in {"start", "pf_start"}
  /\ metadata = NoMetadata
  /\ fileList = <<>>
  /\ members = <<>>
  /\ loopIdx = 0
  /\ cur = NoCur
  /\ result = <<>>
  /\ outcome = NoOutcome
  /\ destLog = <<>>
  /\ r2Log = <<>>
  /\ assets = <<>>
  /\ CreateIdle

NextRandomAccess ==
  \/ ReqRestoreDump
  \/ BareFetchMetadata
  \/ VerifyDestination
  \/ BareLoop
  \/ RestoreTableCreate
  \/ RestoreTableParse
  \/ RestoreTableInsert
  \/ PreflightReqRestoreDump
  \/ PreflightFetchMetadata
  \/ PreflightVerify
  \/ \E i \in 1..Cardinality(TableNames) : PreflightAssetCheck(i)
  \/ PreflightJoin
  \/ PreflightLoop
  \/ PreflightRestoreTableCreate
  \/ PreflightRestoreTableInsert
  \/ \E key \in DataKeys : ObjectLost(key)

SpecRandomAccess == InitRandomAccess /\ [][NextRandomAccess]_vars

(***************************************************************************)
(* SpecCreate: backup-create calls issued one after another, each by a     *)
(* client of its own, against one source database.                          *)
(***************************************************************************)
CreateFrom == {<<"d">>, <<"x">>}
CreateNames == {<<"b">>, <<"c">>}

InitCreate ==
  /\ \E S \in SUBSET {nA, nB} :
       \E g \in [S -> SeqUpTo({nA, nB}, 1)] : srcDb = Schema(S, g)
  /\ metaInfo = NoMetaInfo
  /\ RestoreIdle
  /\ CreateIdle

\* the calls of the clients before c have returned
Turn(c) == \A d \in Clients : d < c => cr[d].pc = "done"

NextCreate ==
  \E c \in Clients :
    \/ \E fromDatabase \in CreateFrom, name \in CreateNames :
         Turn(c) /\ CreateRequest(c, fromDatabase, name)
    \/ CreateStep(c)

SpecCreate == InitCreate /\ [][NextCreate]_vars

(***************************************************************************)
(* SpecRoundTrip: a backup-create of the database d under the name b,      *)
(* then a random-access restore of d/b into the empty database t.           *)
(***************************************************************************)
RoundTripTables == {nA, nB, nAcfg}

\* the rows the source tables hold: none in B
RowsOf(t) == IF t = nA THEN MaxRows ELSE IF t = nB THEN 0 ELSE 1

InitRoundTrip ==
  /\ \E S \in SUBSET RoundTripTables :
       \E g \in [S -> SeqUpTo(RoundTripTables, 1)] :
         srcDb = [t \in S |-> SourceTable(t, g[t], RowsOf(t))]
  /\ metaInfo = NoMetaInfo
  /\ RestoreIdle
  /\ CreateIdle

NextRoundTrip ==
  \/ cr[1].pc = "idle" /\ CreateRequest(1, <<"d">>, <<"b">>)
  \/ CreateStep(1)
  \/ \E start \in {"start", "pf_start"} :
       /\ cr[1].pc = "done"
       /\ RestoreRequest([fromDatabase |-> <<"d">>, toDatabase |-> <<"t">>,
                          name |-> <<"b">>], start)
  \/ ReqRestoreDump
  \/ BareFetchMetadata
  \/ VerifyDestination
  \/ BareLoop
  \/ RestoreTableCreate
  \/ RestoreTableParse
  \/ RestoreTableInsert
  \/ PreflightReqRestoreDump
  \/ PreflightFetchMetadata
  \/ PreflightVerify
  \/ \E i \in 1..Cardinality(RoundTripTables) : PreflightAssetCheck(i)
  \/ PreflightJoin
  \/ PreflightLoop
  \/ PreflightRestoreTableCreate
  \/ PreflightRestoreTableInsert

SpecRoundTrip == InitRoundTrip /\ [][NextRoundTrip]_vars

(***************************************************************************)
(* SpecEmptySource: the round trip of a database that holds system tables  *)
(* and at most one table of the user, into a destination that may hold     *)
(* tables already.                                                          *)
(***************************************************************************)
InitEmptySource ==
  /\ \E U \in SUBSET {nA}, Y \in SUBSET SystemTables :
       srcDb = [t \in U \cup Y |-> SourceTable(t, <<>>, MaxRows)]
  /\ metaInfo = NoMetaInfo
  /\ RestoreIdle
  /\ CreateIdle

\* the destination holds the table P before the restore is requested
DestinationHoldsP ==
  /\ pc = "idle"
  /\ cr[1].pc = "idle"
  /\ dstDb = <<>>
  /\ dstDb' = [t \in {nP} |-> OldTable(t)]
  /\ UNCHANGED <<createVars, r2Log, assets, srcDb, metaInfo, req, bucket,
                 dst0, pc, metadata, fileList, members, loopIdx, cur, result,
                 outcome, destLog>>

NextEmptySource ==
  \/ DestinationHoldsP
  \/ cr[1].pc = "idle" /\ CreateRequest(1, <<"d">>, <<"b">>)
  \/ CreateStep(1)
  \/ \E start \in {"start", "pf_start"} :
       /\ cr[1].pc = "done"
       /\ RestoreRequest([fromDatabase |-> <<"d">>, toDatabase |-> <<"t">>,
                          name |-> <<"b">>], start)
  \/ ReqRestoreDump
  \/ BareFetchMetadata
  \/ VerifyDestination
  \/ BareLoop
  \/ RestoreTableCreate
  \/ RestoreTableParse
  \/ RestoreTableInsert
  \/ PreflightReqRestoreDump
  \/ PreflightFetchMetadata
  \/ PreflightVerify
  \/ PreflightAssetCheck(1)
  \/ PreflightJoin
  \/ PreflightLoop
  \/ PreflightRestoreTableCreate
  \/ PreflightRestoreTableInsert

SpecEmptySource == InitEmptySource /\ [][NextEmptySource]_vars

(***************************************************************************)
(* SpecService: the worker serves the backup-create requests of two        *)
(* clients, one after the other, and one random-access restore request of  *)
(* either revision, whose steps interleave with those of the creates.      *)
(***************************************************************************)
ServiceClients == {1, 2}

InitService ==
  /\ \E S \in SUBSET {nA, nB} :
       \E g \in [S -> SeqUpTo({nA, nB}, 1)] : srcDb = Schema(S, g)
  /\ metaInfo = NoMetaInfo
  /\ RestoreIdle
  /\ CreateIdle

NextService ==
  \/ \E c \in ServiceClients, fromDatabase \in CreateFrom :
       Turn(c) /\ CreateRequest(c, fromDatabase, <<"b">>)
  \/ \E c \in ServiceClients : CreateStep(c)
  \/ \E to \in {<<"t">>, <<"x">>}, start \in {"start", "pf_start"} :
       RestoreRequest([fromDatabase |-> <<"d">>, toDatabase |-> to,
                       name |-> <<"b">>], start)
  \/ ReqRestoreDump
  \/ BareFetchMetadata
  \/ VerifyDestination
  \/ BareLoop
  \/ RestoreTableCreate
  \/ RestoreTableParse
  \/ RestoreTableInsert
  \/ PreflightReqRestoreDump
  \/ PreflightFetchMetadata
  \/ PreflightVerify
  \/ \E i \in 1..2 : PreflightAssetCheck(i)
  \/ PreflightJoin
  \/ PreflightLoop
  \/ PreflightRestoreTableCreate
  \/ PreflightRestoreTableInsert

SpecService == InitService /\ [][NextService]_vars

(***************************************************************************)
(* SpecOverwrite: two backup-create calls of the database d, one after the *)
(* other, while the database changes between the calls.                     *)
(***************************************************************************)
\* no backup-create call is under way
Quiescent == \A c \in Clients : cr[c].pc \in {"idle", "done"}

\* between two calls the last row of a table is deleted
RowDeleted(t) ==
  /\ Quiescent
  /\ t \in DOMAIN srcDb
  /\ srcDb[t].rows # <<>>
  /\ srcDb' = [srcDb EXCEPT ![t].rows = SubSeq(@, 1, Len(@) - 1)]
  /\ UNCHANGED <<metaInfo, restoreVars, createVars>>

\* between two calls a table is dropped
TableDropped(t) ==
  /\ Quiescent
  /\ t \in DOMAIN srcDb
  /\ srcDb' = [u \in DOMAIN srcDb \ {t} |-> srcDb[u]]
  /\ UNCHANGED <<metaInfo, restoreVars, createVars>>

InitOverwrite ==
  /\ \E S \in SUBSET {nA, nB} :
       \E g \in [S -> SeqUpTo({nA, nB}, 1)] : srcDb = Schema(S, g)
  /\ metaInfo = NoMetaInfo
  /\ RestoreIdle
  /\ CreateIdle

NextOverwrite ==
  \/ \E c \in {1, 2}, name \in CreateNames :
       Turn(c) /\ CreateRequest(c, <<"d">>, name)
  \/ \E c \in {1, 2} : CreateStep(c)
  \/ \E t \in {nA, nB} : RowDeleted(t)
  \/ \E t \in {nA, nB} : TableDropped(t)

SpecOverwrite == InitOverwrite /\ [][NextOverwrite]_vars

(***************************************************************************)
(* SpecRestoreDuringCreate: the backup d/b is created and then created     *)
(* again, the database d changing between the two calls.  One              *)
(* random-access restore of d/b into t arrives after the first call has    *)
(* returned; its steps may follow any await of the second call.            *)
(***************************************************************************)
InitRestoreDuringCreate ==
  /\ \E S \in SUBSET {nA, nB} :
       \E g \in [S -> SeqUpTo({nA, nB}, 1)] : srcDb = Schema(S, g)
  /\ metaInfo = NoMetaInfo
  /\ RestoreIdle
  /\ CreateIdle

NextRestoreDuringCreate ==
  \/ \E c \in {1, 2} : Turn(c) /\ CreateRequest(c, <<"d">>, <<"b">>)
  \/ \E c \in {1, 2} : CreateStep(c)
  \/ RowDeleted(nA)
  \/ TableDropped(nB)
  \/ \E start \in {"start", "pf_start"} :
       /\ cr[1].pc = "done"
       /\ RestoreRequest([fromDatabase |-> <<"d">>, toDatabase |-> <<"t">>,
                          name |-> <<"b">>], start)
  \/ ReqRestoreDump
  \/ BareFetchMetadata
  \/ VerifyDestination
  \/ BareLoop
  \/ RestoreTableCreate
  \/ RestoreTableParse
  \/ RestoreTableInsert
  \/ PreflightReqRestoreDump
  \/ PreflightFetchMetadata
  \/ PreflightVerify
  \/ \E i \in 1..2 : PreflightAssetCheck(i)
  \/ PreflightJoin
  \/ PreflightLoop
  \/ PreflightRestoreTableCreate
  \/ PreflightRestoreTableInsert

SpecRestoreDuringCreate ==
  InitRestoreDuringCreate /\ [][NextRestoreDuringCreate]_vars

(***************************************************************************)
(* SpecConcurrentCreate: two backup-create requests for the backup d/b are *)
(* served at the same time; a step of either may follow any await of the   *)
(* other.                                                                   *)
(***************************************************************************)
InitConcurrentCreate ==
  /\ \E S \in SUBSET {nA, nB} :
       \E g \in [S -> SeqUpTo({nA, nB}, 1)] : srcDb = Schema(S, g)
  /\ metaInfo = NoMetaInfo
  /\ RestoreIdle
  /\ CreateIdle

NextConcurrentCreate ==
  \E c \in {1, 2} :
    \/ CreateRequest(c, <<"d">>, <<"b">>)
    \/ CreateStep(c)

SpecConcurrentCreate == InitConcurrentCreate /\ [][NextConcurrentCreate]_vars

(***************************************************************************)
(* Properties of the restore.                                              *)
(***************************************************************************)
\* the DDL and insert batches sent to the destination so far
Statements == SelectSeq(destLog, LAMBDA e : e.op \in {"ddl", "insert"})

\* the tables created in the destination so far, in order
Materialized ==
  LET created == SelectSeq(destLog, LAMBDA e : e.op = "ddl" /\ e.ok)
  IN [i \in 1..Len(created) |-> created[i].table]

IsPrefix(s, t) == Len(s) <= Len(t) /\ s = SubSeq(t, 1, Len(s))

\* the tables of the backup that the destination held before the restore
Colliding == Range(metadata.loadOrder) \cap DOMAIN dst0

ConflictRefused ==
  /\ pc = "done"
  /\ outcome.kind = "fail"
  /\ outcome.msg = "tables to be restored already exist"

Untouched(t) == t \in DOMAIN dstDb /\ dstDb[t] = dst0[t]

\* C2: in both variants a restore whose validation finds colliding tables
\* fails with the list of them and sends no DDL or insert batch to the
\* destination; validation precedes the first batch, and the tables the
\* destination held before the restore are never dropped or altered.
C2_ConflictRefusedBeforeDDL ==
  /\ (metadata.loaded /\ Colliding # {})
       => /\ Statements = <<>>
          /\ pc = "done" => (ConflictRefused /\ Range(outcome.data) = Colliding)
  /\ ConflictRefused => (Colliding # {} /\ dstDb = dst0)
  /\ Statements # <<>> => destLog[1].op = "query"
  /\ \A t \in DOMAIN dst0 : Untouched(t)

\* a tar restore refused over two colliding tables
C2_Witness ==
  /\ ConflictRefused
  /\ IsTarName(req.name)
  /\ Cardinality(Colliding) = 2
  /\ Len(metadata.loadOrder) = 3

\* C3: verifyDbTables returns exactly the names that are in loadOrder and
\* are tables of the destination, each once: none outside loadOrder, none
\* omitted.
C3_ValidatorExact ==
  /\ metadata.loaded =>
       LET existing == verifyDbTables(dstDb, metadata).existing
       IN /\ Range(existing) = Range(metadata.loadOrder) \cap DOMAIN dstDb
          /\ Cardinality(Range(existing)) = Len(existing)
  /\ ConflictRefused => Range(outcome.data) = Colliding
  /\ (pc \in {"bare_loop", "tar_next"} /\ metadata.loaded /\ destLog # <<>>)
       => Colliding = {}

\* the validator returns one of two backup tables while the destination
\* holds a table that is no part of the backup
C3_Witness ==
  /\ ConflictRefused
  /\ Len(outcome.data) = 1
  /\ Len(metadata.loadOrder) = 2
  /\ nP \in DOMAIN dst0

\* the member the archive must hold at position k (metadata.json is first)
ExpectedAt(k) ==
  IF k - 1 <= Len(metadata.loadOrder)
  THEN metadata.loadOrder[k - 1] \o DotJson
  ELSE Undefined

MismatchAt(k) ==
  ~(members[k].type = "file" /\ members[k].name = ExpectedAt(k))

UnexpectedMember(found, expected) ==
  /\ pc = "done"
  /\ outcome.kind = "fail"
  /\ outcome.msg = "unexpected file"
  /\ outcome.args = <<found, expected>>

\* C4: in the tar restore a member read after metadata.json that is not a
\* regular file named as the next entry of loadOrder aborts the restore with
\* an error naming the found and the expected name; no member is read after
\* it and neither it nor a later member is materialized.
C4_TarMemberMustMatch ==
  (IsTarName(req.name) /\ metadata.loaded) =>
    \A k \in 2..Len(members) :
      MismatchAt(k) =>
        /\ k = Len(members)
        /\ UnexpectedMember(members[k].name, ExpectedAt(k))
        /\ Materialized = SubSeq(metadata.loadOrder, 1, k - 2)
        /\ ~cur.active \/ cur.table = metadata.loadOrder[k - 2]

\* the third member is a directory named as expected: one table restored
C4_Witness ==
  /\ IsTarName(req.name) /\ metadata.loaded
  /\ Len(members) = 3
  /\ members[3].type = "directory"
  /\ members[3].name = ExpectedAt(3)
  /\ Len(Materialized) = 1
  /\ pc = "done"

IsMetadataMember(h) == h.type = "file" /\ h.name = MetadataJson

\* C5: in the tar restore a first member that is not a regular file named
\* metadata.json aborts the restore before the destination is queried or
\* changed; otherwise the expected list is loadOrder with .json appended, in
\* loadOrder order, before a further member is read.
C5_TarMetadataFirst ==
  (IsTarName(req.name) /\ Len(members) >= 1) =>
    /\ ~IsMetadataMember(members[1]) =>
         /\ Len(members) = 1
         /\ UnexpectedMember(members[1].name, MetadataJson)
         /\ ~metadata.loaded
         /\ destLog = <<>>
         /\ dstDb = dst0
    /\ (IsMetadataMember(members[1]) /\ Len(members) = 1
          /\ ~(pc = "done" /\ outcome.kind = "throw" /\ destLog = <<>>)) =>
         /\ metadata.loaded
         /\ fileList = [i \in 1..Len(metadata.loadOrder) |->
                          metadata.loadOrder[i] \o DotJson]

\* a directory named metadata.json comes first, the destination holds tables
C5_Witness ==
  /\ IsTarName(req.name)
  /\ Len(members) = 1
  /\ members[1].type = "directory" /\ members[1].name = MetadataJson
  /\ DOMAIN dst0 # {}
  /\ pc = "done"

\* the expected list of a backup of three tables, before the second member
C5_WitnessExpanded ==
  /\ IsTarName(req.name)
  /\ Len(members) = 1 /\ pc = "tar_next"
  /\ Len(fileList) = 3

\* C6 (as the specification states it): a tar restore reports success only
\* when metadata.json and the member of every table of loadOrder were read
\* and every table was materialized.
C6_TarSuccessIsComplete ==
  (IsTarName(req.name) /\ pc = "done" /\ outcome.kind = "success") =>
    /\ metadata.loaded
    /\ Materialized = metadata.loadOrder

ResultNames == [i \in 1..Len(result) |-> result[i].name]

\* C9: in both variants the tables materialized so far are a prefix of
\* loadOrder: one at a time, each at most once, in loadOrder order, a table
\* complete before the next is created.
C9_MaterializedIsPrefix ==
  /\ ~metadata.loaded => Materialized = <<>>
  /\ metadata.loaded =>
       /\ IsPrefix(Materialized, metadata.loadOrder)
       /\ IsPrefix(ResultNames, Materialized)
       /\ Len(Materialized) <= Len(result) + 1
  /\ DOMAIN dstDb = DOMAIN dst0 \cup Range(Materialized)

\* a bare-file restore of three tables whose order is not the name order
C9_Witness ==
  /\ ~IsTarName(req.name)
  /\ pc = "done" /\ outcome.kind = "success"
  /\ Len(Materialized) = 3
  /\ Materialized # metadata.tables.keys

Failed == outcome.kind \in {"fail", "throw"}

\* C10: the step that fails ends the restore and leaves the destination as
\* it is; no step of a restore removes a table from the destination, and a
\* table whose restore has returned keeps its definition and rows.
C10_NoRollback ==
  /\ [](Failed => pc = "done")
  /\ [](\A i \in 1..Len(result) :
          /\ result[i].name \in DOMAIN dstDb
          /\ Len(dstDb[result[i].name].rows) = result[i].rows)
  /\ [][/\ DOMAIN dstDb \subseteq DOMAIN dstDb'
        /\ \A t \in Range(ResultNames) : dstDb'[t] = dstDb[t]
        /\ outcome'.kind \in {"fail", "throw"} => dstDb' = dstDb
        /\ pc = "done" => UNCHANGED <<dstDb, destLog>>]_vars

\* an insert batch failed after one table was restored with its rows
C10_Witness ==
  /\ pc = "done" /\ outcome.kind = "throw"
  /\ Len(result) = 1
  /\ result[1].rows = MaxRows
  /\ Len(destLog) >= 1 /\ destLog[Len(destLog)].op = "insert"

(***************************************************************************)
(* Properties of the random-access restore, in both revisions.              *)
(***************************************************************************)
DataKey(i) == KeyOf(baseKey, metadata.loadOrder[i] \o DotJson)
AbsentAt(i) == DataKey(i) \notin DOMAIN bucket

\* the loop is about to fetch the data file of the table at loopIdx
AtLoopHead ==
  /\ pc \in {"bare_loop", "pf_loop"}
  /\ loopIdx <= Len(metadata.loadOrder)

\* the restore has failed over the missing data file of the table at loopIdx
MissingFailure ==
  /\ pc = "done"
  /\ outcome.kind = "fail"
  /\ outcome.msg \in {"table data file missing", "unable to restore backup"}
  /\ outcome.args = <<metadata.loadOrder[loopIdx]>>

\* C11: in the random-access restore, when the loop reaches a table of
\* loadOrder whose data file is absent from the bucket, the next step of the
\* restore is the failure: no DDL has run or runs for that table or a later
\* one, and the tables before it stay in the destination with their rows.
C11_MissingObjectAborts ==
  /\ []((AtLoopHead /\ AbsentAt(loopIdx)) =>
          Materialized = SubSeq(metadata.loadOrder, 1, loopIdx - 1))
  /\ [](MissingFailure =>
          /\ AbsentAt(loopIdx)
          /\ Materialized = SubSeq(metadata.loadOrder, 1, loopIdx - 1)
          /\ Len(result) = loopIdx - 1
          /\ \A k \in 1..(loopIdx - 1) :
               /\ metadata.loadOrder[k] \in DOMAIN dstDb
               /\ Len(dstDb[metadata.loadOrder[k]].rows) = result[k].rows)
  /\ [][(AtLoopHead /\ AbsentAt(loopIdx) /\ bucket' = bucket) =>
          /\ MissingFailure'
          /\ UNCHANGED <<dstDb, destLog, result, loopIdx>>]_vars

\* the current revision fails over the third data file after two tables with
\* rows were restored
C11_Witness ==
  /\ MissingFailure
  /\ outcome.msg = "table data file missing"
  /\ loopIdx = 3
  /\ Len(Materialized) = 2
  /\ \A k \in 1..2 : result[k].rows = MaxRows

\* the earlier revision fails over a data file lost after the pre-flight check
C11_WitnessPreflight ==
  /\ MissingFailure
  /\ outcome.msg = "unable to restore backup"
  /\ loopIdx = 2
  /\ Len(Materialized) = 1

MetadataAbsent == KeyOf(baseKey, MetadataJson) \notin DOMAIN bucket

MetadataNotFound ==
  /\ pc = "done"
  /\ outcome.kind = "fail"
  /\ outcome.msg = "metadata file not found"

\* C12: in the random-access restore into a bound database, when the bucket
\* holds no metadata.json of the backup the restore ends with the
\* metadata-not-found failure; the destination is neither queried nor
\* changed and no other key of the bucket is read.
C12_MetadataNotFoundFirst ==
  /\ (MetadataAbsent /\ req.toDatabase \in BoundDatabases) =>
       /\ destLog = <<>>
       /\ dstDb = dst0
       /\ ~metadata.loaded
       /\ \A k \in 1..Len(r2Log) : r2Log[k].key = KeyOf(baseKey, MetadataJson)
       /\ pc \in {"start", "pf_start", "bare_meta", "pf_meta", "done"}
       /\ pc = "done" => MetadataNotFound
  /\ MetadataNotFound => (MetadataAbsent /\ Len(r2Log) = 1)

\* the bucket holds data files but no metadata.json, the destination tables
C12_Witness ==
  /\ MetadataNotFound
  /\ DOMAIN bucket # {}
  /\ DOMAIN dst0 # {}

(***************************************************************************)
(* Properties of backup-create and of the tracking table.                   *)
(***************************************************************************)
SamePair(r, fromDatabase, name) ==
  r.dbName = fromDatabase /\ r.backupName = name

Succeeded(c) == cr[c].pc = "done" /\ cr[c].outcome.kind = "success"

\* C13: with backup-create calls issued one after another, the tracking
\* table never holds two records of one (dbName, backupName) pair, nor two
\* records of one id; a pair has a record once a call for it has succeeded.
C13_OneRecordPerPair ==
  /\ \A i, j \in 1..Len(tracking) :
       (SamePair(tracking[i], tracking[j].dbName, tracking[j].backupName)
          \/ tracking[i].id = tracking[j].id) => i = j
  /\ \A c \in Clients :
       Succeeded(c) =>
         Len(existingQuery(tracking, cr[c].req.fromDatabase,
                           cr[c].req.name)) = 1

\* three calls have succeeded, two of them for the same pair
C13_Witness ==
  /\ \A c \in 1..3 : Succeeded(c)
  /\ cr[1].req = cr[3].req
  /\ cr[2].req # cr[1].req
  /\ Len(tracking) = 2

\* the keys client c has written, in order
PutsBy(c) ==
  LET puts == SelectSeq(r2Log, LAMBDA e : e.op = "put" /\ e.by = c)
  IN [i \in 1..Len(puts) |-> puts[i].key]

\* the keys of the backup whose metadata client c holds
BackupKeys(c) ==
  <<KeyOf(keyPrefix(c), MetadataJson)>> \o
  [i \in 1..Len(cr[c].metadata.loadOrder) |->
     KeyOf(keyPrefix(c), cr[c].metadata.loadOrder[i] \o DotJson)]

\* the bucket holds every object of the backup of client c
AllWritten(c) ==
  /\ PutsBy(c) = BackupKeys(c)
  /\ \A i \in 1..Len(BackupKeys(c)) : BackupKeys(c)[i] \in DOMAIN bucket

\* C14: dbBkpInsert runs only after metadata.json and the data file of every
\* table of loadOrder have been written; a call that fails before that
\* point returns no record and adds none to the tracking table.
C14_RecordAfterAllWrites ==
  /\ [](\A c \in Clients :
          (cr[c].pc \in {"ins_check", "ins_insert"} \/ cr[c].record # <<>>)
            => AllWritten(c))
  /\ [](\A c \in Clients :
          (cr[c].pc = "done" /\ cr[c].outcome.kind # "success")
            => cr[c].record = <<>>)
  /\ [](\A i \in 1..Len(tracking) :
          \E c \in Clients :
            /\ Succeeded(c)
            /\ cr[c].record = <<tracking[i]>>)
  /\ [][tracking' # tracking =>
          \E c \in Clients : cr[c].pc = "ins_insert" /\ AllWritten(c)]_vars

\* the first call fails at the write of a data file, the second succeeds
C14_Witness ==
  /\ cr[1].pc = "done" /\ cr[1].outcome.msg = "R2_ERROR"
  /\ Len(PutsBy(1)) = 2
  /\ Succeeded(2)
  /\ cr[2].req = cr[1].req
  /\ Len(tracking) = 1
  /\ Len(PutsBy(2)) = 3

\* C15: a call of dbBkpInsert for a pair that has a record returns that
\* record, with its id, and leaves the tracking table as it is; no step
\* changes or removes a record of the tracking table.
C15_ExistingRecordReturned ==
  /\ [][\A c \in Clients :
          LET existing == existingQuery(tracking, cr[c].req.fromDatabase,
                                        cr[c].req.name)
          IN (cr[c].pc = "ins_check" /\ cr'[c] # cr[c] /\ Len(existing) # 0)
               => /\ tracking' = tracking
                  /\ cr'[c].record = <<existing[1]>>
                  /\ cr'[c].pc = "done"]_vars
  /\ [][IsPrefix(tracking, tracking')]_vars

\* the second call for a pair has returned the record of the first
C15_Witness ==
  /\ Succeeded(1) /\ Succeeded(2) /\ Succeeded(3)
  /\ cr[2].req # cr[1].req
  /\ cr[3].req = cr[2].req
  /\ cr[3].record = cr[2].record
  /\ cr[3].record[1].id = 2

(***************************************************************************)
(* The round trip.                                                          *)
(***************************************************************************)
\* the statements that create the table of the loaded metadata
DDLOf(t) ==
  LET table == metadata.tables.val[t]
  IN <<table.sql>> \o [i \in 1..Len(table.indexes) |-> table.indexes[i].sql]

\* the restore ended in a batch that D1 refused although the destination
\* would have accepted its statements
RefusedByD1 ==
  /\ pc = "done"
  /\ outcome = throw("D1_ERROR")
  /\ destLog # <<>>
  /\ LET e == destLog[Len(destLog)]
     IN /\ ~e.ok
        /\ e.op = "ddl" => ExecDDL(dstDb, DDLOf(e.table)).ok
        /\ e.op = "insert" =>
             ExecInsert(dstDb, e.table, metadata.tables.val[e.table].columns,
                        cur.data).ok

\* the destination holds the table t of the source with the same columns,
\* as many indexes and as many rows
Reproduced(t) ==
  /\ t \in DOMAIN dstDb
  /\ dstDb[t].columns = srcDb[t].columns
  /\ Len(dstDb[t].indexes) = Len(srcDb[t].indexes)
  /\ Len(dstDb[t].rows) = Len(srcDb[t].rows)

RoundTripDone == Succeeded(1) /\ pc = "done"

\* C16 (as the specification states it): for a source database with an
\* acyclic foreign-key graph, a backup-create succeeds unless R2 or D1 refuse
\* an operation, and the random-access restore of that backup into an empty
\* database succeeds unless D1 refuses a batch, and then every table of the
\* source is in the destination with the same columns, as many indexes and
\* as many rows.
C16_RoundTrip ==
  (FkResolved /\ SelfReferencing = {} /\ ~HasCycle) =>
    /\ cr[1].pc = "done" =>
         (Succeeded(1) \/ cr[1].outcome.msg \in {"R2_ERROR", "D1_ERROR"})
    /\ RoundTripDone =>
         /\ outcome.kind = "success" \/ RefusedByD1
         /\ outcome.kind = "success" =>
              \A t \in DOMAIN srcDb : Reproduced(t)

\* the round trip of the databases whose table names the filter of
\* dbBkpGetTableList lets pass
C16_RoundTripOfListedTables ==
  (\A t \in DOMAIN srcDb : ~NameFiltered(t)) => C16_RoundTrip

\* three tables in a chain went through the round trip
C16_WitnessListed ==
  /\ RoundTripDone /\ outcome.kind = "success"
  /\ DOMAIN srcDb = {nA, nB}
  /\ FkTargets(nA) = {nB}
  /\ \A t \in DOMAIN srcDb : Reproduced(t)

(***************************************************************************)
(* The choice of the restore variant.                                       *)
(***************************************************************************)
\* the last four characters of the name are .tar or .tgz
HasTarSuffix(name) ==
  /\ Len(name) >= 4
  /\ [i \in 1..4 |-> name[Len(name) - 4 + i]] \in {DotTar, DotTgz}

\* traces of performTarRestore
SequentialRan ==
  \/ pc \in {"tar_open", "tar_verify", "tar_next"}
  \/ members # <<>> \/ fileList # <<>>
  \/ \E k \in 1..Len(r2Log) : r2Log[k].key = baseKey
  \/ outcome.msg \in {"not a valid tar file", "unexpected file",
                      "metadata.json does not mention table",
                      "backup restored from tarball"}

\* traces of performBareFileRestore
RandomAccessRan ==
  \/ pc \in {"bare_meta", "bare_verify", "bare_loop"}
  \/ \E k \in 1..Len(r2Log) : r2Log[k].key # baseKey
  \/ outcome.msg \in {"metadata file not found", "table data file missing",
                      "backup restored from file collection"}

\* C17: a restore into a bound database runs performTarRestore and never
\* performBareFileRestore when the name ends in .tar or .tgz, and
\* performBareFileRestore and never performTarRestore for every other name,
\* whatever the bucket and the destination hold; the tar restore never
\* rejects the key for its name.
C17_VariantByName ==
  /\ HasTarSuffix(req.name) => ~RandomAccessRan
  /\ ~HasTarSuffix(req.name) => ~SequentialRan
  /\ (pc # "start" /\ req.toDatabase \in BoundDatabases) =>
       IF HasTarSuffix(req.name) THEN SequentialRan ELSE RandomAccessRan
  /\ outcome.msg = "not a valid tar file" => baseKey \notin DOMAIN bucket

\* a backup named b.tarb is restored from its files
C17_Witness ==
  /\ req.name = <<"b">> \o DotTar \o <<"b">>
  /\ pc = "done"
  /\ outcome.msg = "backup restored from file collection"
  /\ Len(result) = 3

\* a backup named .tgz is read as an archive
C17_WitnessSuffixOnly ==
  /\ req.name = DotTgz
  /\ pc = "done"
  /\ outcome.msg = "backup restored from tarball"
  /\ Len(result) = 1

(***************************************************************************)
(* restoreTable, in both revisions.                                         *)
(***************************************************************************)
\* the batches sent for table t so far
BatchesFor(t, op) == {k \in 1..Len(destLog) :
                        destLog[k].op = op /\ destLog[k].table = t}

\* the destination holds table t as its descriptor defines it
CreatedAsDescribed(t) ==
  LET table == metadata.tables.val[t]
  IN /\ t \in DOMAIN dstDb
     /\ dstDb[t].sql = table.sql
     /\ dstDb[t].columns = table.columns
     /\ Len(dstDb[t].indexes) = Len(table.indexes)
     /\ \A i \in 1..Len(table.indexes) :
          /\ dstDb[t].indexes[i].name = table.indexes[i].name
          /\ dstDb[t].indexes[i].sql = table.indexes[i].sql

\* C18: restoreTable sends one batch with the create statement of the table
\* and of each of its indexes and, only after that batch has succeeded and
\* only when the payload has rows, one insert batch; it returns the name of
\* the table, the number of indexes of the descriptor and the number of rows
\* of the payload.
C18_RestoreTableSteps ==
  /\ \A k \in 1..Len(destLog) :
       /\ destLog[k].op = "insert" =>
            /\ k > 1
            /\ destLog[k - 1] = LogEntry("ddl", destLog[k].table, TRUE)
       /\ destLog[k].op = "ddl" =>
            /\ BatchesFor(destLog[k].table, "ddl") = {k}
            /\ destLog[k].ok => CreatedAsDescribed(destLog[k].table)
  /\ pc \in {"rt_parse", "rt_insert", "pf_insert"} =>
       /\ CreatedAsDescribed(cur.table)
       /\ dstDb[cur.table].rows = <<>>
       /\ BatchesFor(cur.table, "insert") = {}
  /\ pc \in {"rt_insert", "pf_insert"} => Len(cur.data) > 0
  /\ \A i \in 1..Len(result) :
       LET t == metadata.loadOrder[i]
           table == metadata.tables.val[t]
       IN /\ result[i] = [name |-> table.name,
                          indexes |-> Len(table.indexes),
                          rows |-> Len(dstDb[t].rows)]
          /\ DataKey(i) \in DOMAIN bucket =>
               result[i].rows = Len(bucket[DataKey(i)].value)
          /\ result[i].rows = 0 <=> BatchesFor(t, "insert") = {}
          /\ Cardinality(BatchesFor(t, "insert")) <= 1

\* three tables restored: one without rows, one with rows and an index
C18_Witness ==
  /\ pc = "done" /\ outcome.kind = "success"
  /\ Len(result) = 3
  /\ \E i \in 1..3 : result[i].rows = 0
  /\ \E i \in 1..3 : result[i].rows = MaxRows /\ result[i].indexes = 1

(***************************************************************************)
(* The pre-flight check of the earlier revision.                            *)
(***************************************************************************)
\* the names of loadOrder whose data file the bucket does not hold, in
\* loadOrder order
AbsentNames ==
  SelectSeq(metadata.loadOrder,
            LAMBDA t : KeyOf(baseKey, t \o DotJson) \notin DOMAIN bucket)

AllSettled == DOMAIN assets = 1..Len(metadata.loadOrder)

MissingAssetsFailure ==
  /\ pc = "done"
  /\ outcome.kind = "fail"
  /\ outcome.msg = "table data files are missing"

\* C19: in the revision with the pre-flight check no batch is sent to the
\* destination while an existence check is outstanding; the restore leaves
\* the check only when all have settled, and when a data file is absent it
\* fails with exactly the names of the absent ones, in loadOrder order,
\* without a DDL statement.
C19_PreflightJoinsBeforeDDL ==
  /\ [](pc = "pf_assets" => (Statements = <<>> /\ dstDb = dst0))
  /\ [](MissingAssetsFailure =>
          /\ Statements = <<>> /\ dstDb = dst0
          /\ AllSettled
          /\ outcome.data = AbsentNames
          /\ Len(outcome.data) > 0)
  /\ [][(pc = "pf_assets" /\ pc' # "pf_assets") =>
          /\ AllSettled
          /\ UNCHANGED <<dstDb, destLog>>
          /\ IF Len(AbsentNames) > 0 THEN MissingAssetsFailure'
             ELSE pc' = "pf_loop"]_vars
  /\ [][(Len(r2Log') > Len(r2Log) /\ r2Log'[Len(r2Log')].op = "head") =>
          Statements' = <<>>]_vars

\* two of three data files are missing, the destination holds another table
C19_Witness ==
  /\ MissingAssetsFailure
  /\ Len(metadata.loadOrder) = 3
  /\ Len(outcome.data) = 2
  /\ outcome.data[1] # metadata.loadOrder[1]
  /\ DOMAIN dst0 = {nP}

(***************************************************************************)
(* The fields of the persisted table descriptors.                           *)
(***************************************************************************)
\* the metadata documents in the bucket
StoredMetadata ==
  {bucket[k].value : k \in {x \in DOMAIN bucket : endsWith(x, MetadataJson)}}

\* the table descriptors of the metadata documents in the bucket
StoredDescriptors ==
  UNION {{doc.tables.val[t] : t \in Range(doc.tables.keys)} :
           doc \in StoredMetadata}

\* the foreign keys of the source table as pragma_foreign_key_list reports
\* them, the table names in the spelling of the table list
NormalisedConstraints(t) ==
  [i \in 1..Len(srcDb[t].fks) |->
     [table |-> IF \E u \in DOMAIN srcDb :
                     toUpperCase(u) = toUpperCase(srcDb[t].fks[i].table)
                THEN CHOOSE u \in DOMAIN srcDb :
                       toUpperCase(u) = toUpperCase(srcDb[t].fks[i].table)
                ELSE Undefined,
      from |-> srcDb[t].fks[i].from,
      to |-> srcDb[t].fks[i].to]]

UnknownDatabase(o, name) == o = fail("no such bound database", <<name>>, <<>>)

\* the state a request may change besides its own position and response
Stores == <<bucket, r2Log, tracking, srcDb, dstDb, destLog>>

\* C21: a backup-create whose fromDatabase has no binding and a restore
\* whose toDatabase has no binding end with the failure "no such bound
\* database" in their first step: the bucket is neither read nor written,
\* no database is queried or changed and the tracking table gets no record.
C21_UnknownBindingFailsFirst ==
  /\ [](\A c \in Clients :
          (cr[c].pc # "idle" /\ cr[c].req.fromDatabase \notin BoundDatabases)
            => /\ cr[c].pc \in {"start", "done"}
               /\ cr[c].pc = "done" =>
                    UnknownDatabase(cr[c].outcome, cr[c].req.fromDatabase)
               /\ PutsBy(c) = <<>>
               /\ cr[c].metadata = NoMetaInfo
               /\ cr[c].tables = <<>>
               /\ cr[c].record = <<>>)
  /\ [](\A i \in 1..Len(tracking) : tracking[i].dbName \in BoundDatabases)
  /\ []((pc # "idle" /\ req.toDatabase \notin BoundDatabases)
          => /\ pc \in {"start", "pf_start", "done"}
             /\ pc = "done" => UnknownDatabase(outcome, req.toDatabase)
             /\ \A k \in 1..Len(r2Log) : r2Log[k].by # 0
             /\ destLog = <<>>
             /\ dstDb = dst0
             /\ ~metadata.loaded)
  /\ [][\A c \in Clients :
          (cr[c].pc = "start" /\ cr'[c] # cr[c]
             /\ cr[c].req.fromDatabase \notin BoundDatabases)
            => (cr'[c].pc = "done" /\ UNCHANGED Stores)]_vars
  /\ [][(pc \in {"start", "pf_start"} /\ pc' # pc
          /\ req.toDatabase \notin BoundDatabases)
         => (pc' = "done" /\ UNCHANGED Stores)]_vars

\* both kinds of request have failed over the binding while another
\* backup-create has succeeded
C21_Witness ==
  /\ cr[1].pc = "done"
  /\ UnknownDatabase(cr[1].outcome, <<"x">>)
  /\ Succeeded(2)
  /\ pc = "done"
  /\ UnknownDatabase(outcome, <<"x">>)
  /\ Len(tracking) = 1

(***************************************************************************)
(* The keys a backup-create writes.                                         *)
(***************************************************************************)
\* no call after that of client c has written under the same prefix
LastWriter(c) ==
  \A d \in Clients \ {c} :
    (d > c /\ cr[d].pc # "idle" /\ keyPrefix(d) = keyPrefix(c))
      => PutsBy(d) = <<>>

\* the bucket holds what the call of client c wrote: its metadata and, for
\* every table of loadOrder, as many rows as the call reports
HoldsBackupOf(c) ==
  /\ bucket[KeyOf(keyPrefix(c), MetadataJson)] =
       JsonObj(MetadataDoc(cr[c].metadata))
  /\ \A i \in 1..Len(cr[c].metadata.loadOrder) :
       LET t == cr[c].metadata.loadOrder[i]
           object == bucket[KeyOf(keyPrefix(c), t \o DotJson)]
       IN /\ object.ok
          /\ cr[c].tables[i].name = t
          /\ Len(object.value) = cr[c].tables[i].rows

\* C22: a backup-create writes only keys under fromDatabase/name/; one that
\* succeeds has written metadata.json and the data file of every table of
\* loadOrder, each once and nothing else; every write replaces what the key
\* held, so that after a second call under the same identity the keys hold
\* the contents of the second call.
C22_KeysOfABackup ==
  /\ [](\A c \in Clients : \A i \in 1..Len(PutsBy(c)) :
          IsPrefix(keyPrefix(c) \o Slash, PutsBy(c)[i]))
  /\ [](\A c \in Clients :
          Succeeded(c) =>
            /\ PutsBy(c) = BackupKeys(c)
            /\ Cardinality(Range(PutsBy(c))) = Len(PutsBy(c))
            /\ LastWriter(c) => HoldsBackupOf(c))
  /\ [][\A c \in Clients :
          (cr[c].pc \in {"put_meta", "put_table"}
             /\ cr'[c].pc \notin {cr[c].pc, "done"})
            => LET key == r2Log'[Len(r2Log')].key
                   obj == IF cr[c].pc = "put_meta"
                          THEN MetadataDoc(cr[c].metadata)
                          ELSE cr[c].data
               IN /\ DOMAIN bucket' = DOMAIN bucket \cup {key}
                  /\ bucket'[key] = JsonObj(obj)
                  /\ \A k \in DOMAIN bucket \ {key} : bucket'[k] = bucket[k]]_vars

\* the second call under the same identity has replaced the data file of a
\* table that lost a row, and the metadata of a backup that lost a table
C22_Witness ==
  /\ Succeeded(1) /\ Succeeded(2)
  /\ cr[1].req = cr[2].req
  /\ Len(cr[1].metadata.loadOrder) = 2
  /\ Len(cr[2].metadata.loadOrder) = 1
  /\ cr[2].tables[1].rows = MaxRows - 1
  /\ Cardinality(DOMAIN bucket) = 3

(***************************************************************************)
(* The tables and the foreign keys that introspection reports.              *)
(***************************************************************************)
\* the name begins with sqlite_ or with _cf_
HasSystemPrefix(name) ==
  \/ IsPrefix(<<"s", "q", "l", "i", "t", "e", "_">>, name)
  \/ IsPrefix(<<"_", "c", "f", "_">>, name)

\* C23 (as the specification states it): the table mapping of a backup
\* holds exactly the tables of the source database whose name begins
\* neither with sqlite_ nor with _cf_.
C23_FilterByPrefix ==
  metaInfo.err = "none" =>
    Range(metaInfo.tables.keys) =
      {t \in DOMAIN srcDb : ~HasSystemPrefix(t)}

\* the tables with a system prefix are never in the mapping
C23_SystemTablesExcluded ==
  metaInfo.err = "none" =>
    /\ \A t \in Range(metaInfo.tables.keys) : ~HasSystemPrefix(t)
    /\ Range(metaInfo.tables.keys) \subseteq DOMAIN srcDb

\* the table details as dbBkpPopulateTableDetails returns them
Details == dbBkpPopulateTableDetails(srcDb, dbBkpGetTableList(srcDb).list)

\* C24 (as the specification states it): introspection and load-order
\* resolution never fail over a foreign key; every foreign key of the
\* mapping names a key of the mapping, in the spelling of the mapping, and
\* every dependency is a table of the mapping.
C24_ForeignKeysResolve ==
  metaInfo.err # "notrun" =>
    /\ metaInfo.err = "none"
    /\ \A t \in Range(metaInfo.tables.keys) :
         /\ \A i \in 1..Len(metaInfo.tables.val[t].constraints) :
              HasKey(metaInfo.tables,
                     metaInfo.tables.val[t].constraints[i].table)
         /\ \A d \in Range(Details.val[t].dependencies) :
              HasKey(metaInfo.tables, d)

\* every foreign key names, in some case, a table that is listed
FkListed ==
  \A t \in DOMAIN srcDb : \A u \in FkTargets(t) :
    \E v \in DOMAIN srcDb : ~NameFiltered(v) /\ SameName(u, v)

\* the foreign keys that name a listed table in another case are resolved
C24_CaseMismatchResolved == FkListed => C24_ForeignKeysResolve

\* a foreign key that names A as a has been resolved to A
C24_WitnessCaseMismatch ==
  /\ metaInfo.err = "none"
  /\ nB \in DOMAIN srcDb
  /\ FkTargets(nB) = {<<"a">>}
  /\ metaInfo.tables.val[nB].constraints[1].table = nA
  /\ metaInfo.loadOrder[1] = nA

(***************************************************************************)
(* Archive members that name no table of the metadata.                      *)
(***************************************************************************)
\* the table member k of the archive is named for
DerivedName(k) == SplitDot0(members[k].name)

UnknownTableMember(k) ==
  /\ pc = "done"
  /\ outcome.kind = "fail"
  /\ \/ outcome.msg = "unexpected file"
     \/ /\ outcome.msg = "metadata.json does not mention table"
        /\ outcome.args = <<DerivedName(k)>>

\* C25: in the sequential restore a member read after metadata.json whose
\* name without the extension is no key of metadata.tables is the last
\* member read: the restore fails over it, and neither restoreTable nor a
\* statement on the destination is ever given that table.
C25_UnknownTableMemberAborts ==
  /\ cur.active => HasKey(metadata.tables, cur.table)
  /\ \A e \in Range(destLog) :
       e.op # "query" => HasKey(metadata.tables, e.table)
  /\ \A k \in 2..Len(members) :
       ~HasKey(metadata.tables, DerivedName(k)) =>
         /\ k = Len(members)
         /\ UnknownTableMember(k)
         /\ DerivedName(k) \notin DOMAIN dstDb \ DOMAIN dst0
         /\ \A i \in 1..Len(result) : result[i].name # DerivedName(k)

\* the third member is the one loadOrder expects, after a table has been
\* restored, but tables does not describe it
C25_Witness ==
  /\ Len(members) = 3
  /\ members[3] = [type |-> "file", name |-> nP \o DotJson]
  /\ pc = "done"
  /\ outcome = fail("metadata.json does not mention table", <<nP>>, <<>>)
  /\ Len(result) = 1

(***************************************************************************)
(* The result of the random-access restore.                                 *)
(***************************************************************************)
RestoreSucceeded == pc = "done" /\ outcome.kind = "success"

\* C26: a random-access restore that reports success reports one entry per
\* table of loadOrder, in loadOrder order, and every table of loadOrder has
\* been created in the destination, with the rows its entry counts; an
\* entry is added only for the table the loop is at.
C26_OneResultPerTable ==
  /\ RestoreSucceeded =>
       /\ ResultNames = metadata.loadOrder
       /\ Materialized = metadata.loadOrder
       /\ \A i \in 1..Len(metadata.loadOrder) :
            /\ metadata.loadOrder[i] \in DOMAIN dstDb
            /\ Len(dstDb[metadata.loadOrder[i]].rows) = result[i].rows
  /\ Len(result) <= Len(metadata.loadOrder)
  /\ \A i \in 1..Len(result) : result[i].name = metadata.loadOrder[i]
  /\ pc \in {"bare_loop", "pf_loop"} => Len(result) = loopIdx - 1

\* the earlier revision reports three tables in an order that is not the
\* order of their names
C26_Witness ==
  /\ RestoreSucceeded
  /\ outcome.msg = "backup restored"
  /\ Len(result) = 3
  /\ ResultNames # metadata.tables.keys

(***************************************************************************)
(* The backup of a database without tables of the user.                     *)
(***************************************************************************)
ZeroUserTables == \A t \in DOMAIN srcDb : HasSystemPrefix(t)

EmptyMetadata == [loadOrder |-> <<>>, tables |-> EmptyObj]

\* C27: the backup-create of a database without user tables fails only
\* when R2 refuses the write: its metadata has an empty loadOrder and an
\* empty table mapping, metadata.json is the only key it writes, and the
\* backup is recorded; the random-access restore of that backup succeeds
\* with no table in its result and leaves the destination as it was.
C27_EmptyBackup ==
  ZeroUserTables =>
    /\ cr[1].pc = "done" =>
         (Succeeded(1) \/ cr[1].outcome = throw("R2_ERROR"))
    /\ PutsBy(1) \in {<<>>, <<KeyOf(keyPrefix(1), MetadataJson)>>}
    /\ Succeeded(1) =>
         /\ MetadataDoc(cr[1].metadata) = EmptyMetadata
         /\ DOMAIN bucket = {KeyOf(keyPrefix(1), MetadataJson)}
         /\ bucket[KeyOf(keyPrefix(1), MetadataJson)] = JsonObj(EmptyMetadata)
         /\ cr[1].tables = <<>>
         /\ tracking = <<[id |-> 1, dbName |-> <<"d">>,
                          backupName |-> <<"b">>]>>
    /\ (Succeeded(1) /\ pc = "done") =>
         /\ RestoreSucceeded
         /\ result = <<>>
         /\ Statements = <<>>
         /\ dstDb = dst0

\* the backup of a database that holds two system tables has been restored
\* by the earlier revision into a destination that holds a table
C27_Witness ==
  /\ DOMAIN srcDb = SystemTables
  /\ Succeeded(1)
  /\ RestoreSucceeded
  /\ outcome.msg = "backup restored"
  /\ DOMAIN dstDb = {nP}

(***************************************************************************)
(* The decoding of a table payload and the DDL of the table.                *)
(***************************************************************************)
\* the data file of table t is in the bucket and is no JSON text
Malformed(t) ==
  /\ KeyOf(baseKey, t \o DotJson) \in DOMAIN bucket
  /\ ~bucket[KeyOf(baseKey, t \o DotJson)].ok

DecodeFailure ==
  /\ pc = "done"
  /\ outcome = throw("SyntaxError")
  /\ metadata.loaded

\* C28 (as the specification states it): no DDL is sent for a table whose
\* data file fails to decode; when the restore ends over such a file the
\* destination holds, beside its own tables, exactly the tables that precede
\* that table in loadOrder.
C28_DecodedBeforeDDL ==
  /\ \A k \in 1..Len(destLog) :
       destLog[k].op = "ddl" => ~Malformed(destLog[k].table)
  /\ DecodeFailure =>
       DOMAIN dstDb =
         DOMAIN dst0 \cup Range(SubSeq(metadata.loadOrder, 1, loopIdx - 1))

\* the request is served by the earlier revision of reqRestoreDump
EarlierRevision ==
  \/ pc \in {"pf_start", "pf_meta", "pf_verify", "pf_assets", "pf_loop",
              "pf_ddl", "pf_insert"}
  \/ \E k \in 1..Len(r2Log) : r2Log[k].op = "head"

\* the earlier revision, which decodes the data file before the DDL
C28_EarlierRevisionDecodesFirst == EarlierRevision => C28_DecodedBeforeDDL

\* the earlier revision has ended over the malformed data file of the
\* second table
C28_WitnessEarlierRevision ==
  /\ EarlierRevision
  /\ DecodeFailure
  /\ loopIdx = 2
  /\ Malformed(metadata.loadOrder[2])
  /\ Materialized = <<metadata.loadOrder[1]>>

(***************************************************************************)
(* The columns of the exported and of the restored rows.                    *)
(***************************************************************************)
\* the value row r of table t holds in column c
ValueOf(db, t, r, c) == db[t].rows[r][ColumnIndex(db[t].columns, c)]

\* the data files of the backup d/b, by table
StoredRows(t) == bucket[KeyOf(KeyOf(<<"d">>, <<"b">>), t \o DotJson)]

\* C29: value k of every row of a data file is the value the source row
\* holds in column k of the columns recorded in the metadata, and the
\* restore binds it to that column: every restored row holds in every
\* recorded column the value of the source row.
C29_ColumnsBindPositionally ==
  /\ \A i \in 1..Len(cr[1].tables) :
       cr[1].tables[i].columns =
         cr[1].metadata.tables.val[cr[1].tables[i].name].columns
  /\ \A doc \in StoredMetadata : \A t \in Range(doc.loadOrder) :
       KeyOf(KeyOf(<<"d">>, <<"b">>), t \o DotJson) \in DOMAIN bucket =>
         LET columns == doc.tables.val[t].columns
             rows == StoredRows(t).value
         IN /\ Len(rows) = Len(srcDb[t].rows)
            /\ \A r \in 1..Len(rows) :
                 /\ Len(rows[r]) = Len(columns)
                 /\ \A k \in 1..Len(columns) :
                      rows[r][k] = ValueOf(srcDb, t, r, columns[k])
  /\ \A i \in 1..Len(result) :
       LET t == result[i].name
           columns == metadata.tables.val[t].columns
       IN /\ Len(dstDb[t].rows) = Len(srcDb[t].rows)
          /\ \A r \in 1..Len(dstDb[t].rows) : \A k \in 1..Len(columns) :
               ValueOf(dstDb, t, r, columns[k]) =
                 ValueOf(srcDb, t, r, columns[k])

\* the rows of table A, which differ from column to column, have made the
\* round trip
C29_Witness ==
  /\ RoundTripDone /\ RestoreSucceeded
  /\ nA \in Range(ResultNames)
  /\ Len(dstDb[nA].rows) = MaxRows
  /\ \A r \in 1..MaxRows :
       /\ ValueOf(dstDb, nA, r, "id") = r
       /\ ValueOf(dstDb, nA, r, "ref") = -r

(***************************************************************************)
(* Concurrent backup-create requests for one backup.                        *)
(***************************************************************************)
\* C30 (as the specification states it): when two backup-create requests
\* for the same (dbName, backupName) are served at the same time, the
\* tracking table never holds two records of that pair.
C30_OneRecordUnderConcurrency ==
  \A i, j \in 1..Len(tracking) :
    SamePair(tracking[i], tracking[j].dbName, tracking[j].backupName)
      => i = j

\* both requests have passed the existence check of dbBkpInsert before
\* either has inserted its record
C30_BothPassedTheCheck ==
  /\ cr[1].pc = "ins_insert"
  /\ cr[2].pc = "ins_insert"
  /\ tracking = <<>>

\* a request that finds the record of the other returns it and adds none
C30_CheckAfterInsertAddsNone ==
  \A c \in {1, 2} :
    (Succeeded(c) /\ cr[c].record # <<>> /\ Len(tracking) = 1)
      => cr[c].record = <<tracking[1]>>


(***************************************************************************)
(* C33: when the top-level call of getTableLoadOrder returns, no table     *)
(* descriptor of the mapping carries the flag visited: the flag is absent  *)
(* from the document written as metadata.json, and a second resolution     *)
(* over the same mapping returns the loadOrder of the first.               *)
(***************************************************************************)
\* the mapping getTableLoadOrder was given, as the first call left it
ResolvedTables ==
  dbBkpPopulateTableDetails(srcDb, dbBkpGetTableList(srcDb).list)

SecondResolution ==
  getTableLoadOrder(ResolvedTables.val, ResolvedTables.keys,
                    [out |-> <<>>, visited |-> metaInfo.visited,
                     err |-> "none"], 0)

C33_VisitedFlagRemoved ==
  metaInfo.err = "none" =>
    /\ metaInfo.visited = {}
    /\ \A t \in Range(metaInfo.tables.keys) :
         "visited" \notin DOMAIN MetadataDoc(metaInfo).tables.val[t]
    /\ SecondResolution.err = "none"
    /\ SecondResolution.out = metaInfo.loadOrder

\* a table reached twice in the traversal: B and C both refer to A, and C
\* refers to B as well
C33_Witness ==
  /\ metaInfo.err = "none"
  /\ Len(metaInfo.loadOrder) = 3
  /\ \E t \in DOMAIN srcDb : Len(srcDb[t].fks) = 2
  /\ SecondResolution.out = metaInfo.loadOrder


(***************************************************************************)
(* Members read after the expected list of the sequential restore is empty. *)
(***************************************************************************)
\* member k was read when the expected list was empty
Trailing(k) == metadata.loaded /\ k > Len(metadata.loadOrder) + 1

TrailingRejected ==
  (IsTarName(req.name) /\ metadata.loaded) =>
    \A k \in 1..Len(members) :
      Trailing(k) =>
        /\ k = Len(members)
        /\ UnexpectedMember(members[k].name, Undefined)
        /\ Materialized = metadata.loadOrder
        /\ ResultNames = metadata.loadOrder

\* the step that reads a member while the expected list is empty
TrailingRead ==
  /\ pc = "tar_next" /\ metadata.loaded /\ fileList = <<>>
  /\ members' # members

\* C32: in the sequential restore a member read after the expected list has
\* become empty is rejected as unexpected (the expected name is undefined):
\* it is the last member read, reading it changes nothing in the destination
\* and adds no entry to the result, and the restore reports failure although
\* every table of loadOrder has been materialized.
C32_TrailingMemberRejected ==
  /\ []TrailingRejected
  /\ [][TrailingRead =>
          /\ pc' = "done" /\ outcome'.kind = "fail"
          /\ UNCHANGED <<dstDb, destLog, result, cur>>]_vars

\* a backup of two tables, both restored, then a further regular file named
\* as the data file of a table of the backup
C32_Witness ==
  /\ IsTarName(req.name) /\ metadata.loaded
  /\ Len(metadata.loadOrder) = 2
  /\ Len(members) = 4
  /\ members[4].type = "file"
  /\ SplitDot0(members[4].name) \in Range(metadata.loadOrder)
  /\ pc = "done" /\ outcome.kind = "fail"
  /\ Materialized = metadata.loadOrder
  /\ Range(metadata.loadOrder) \subseteq DOMAIN dstDb


(***************************************************************************)
(* A random-access restore served while the backup it reads is rewritten.  *)
(***************************************************************************)
\* the put at position j of r2Log stored its object: a put R2 refuses is the
\* last operation of its backup-create call, which ends with the exception
PutStored(j) ==
  LET c == r2Log[j].by
  IN ~(/\ cr[c].pc = "done" /\ cr[c].outcome = throw("R2_ERROR")
       /\ \A i \in (j + 1)..Len(r2Log) : r2Log[i].by # c)

\* the backup-create call that wrote what the operation at position j of
\* r2Log found under its key; 0 when no call had written the key
WriterAt(j) ==
  LET puts == {i \in 1..(j - 1) :
                 /\ r2Log[i].op = "put" /\ r2Log[i].key = r2Log[j].key
                 /\ PutStored(i)}
  IN IF puts = {} THEN 0
     ELSE r2Log[CHOOSE i \in puts : \A k \in puts : k <= i].by

\* the positions of r2Log where the restore fetched metadata.json and the
\* data files
MetadataGets ==
  {j \in 1..Len(r2Log) :
     /\ r2Log[j].by = 0 /\ r2Log[j].op = "get"
     /\ r2Log[j].key = KeyOf(baseKey, MetadataJson)}

DataGets ==
  {j \in 1..Len(r2Log) :
     /\ r2Log[j].by = 0 /\ r2Log[j].op = "get"
     /\ r2Log[j].key # KeyOf(baseKey, MetadataJson)}

\* C31 (as the specification states it): a random-access restore that
\* succeeds while a backup-create rewrites the backup it reads has
\* materialized only data files written by the backup-create call that wrote
\* the metadata.json it read.
C31_RestoreReadsOneBackup ==
  RestoreSucceeded =>
    \A m \in MetadataGets, j \in DataGets : WriterAt(j) = WriterAt(m)

\* the rows table t held when the backup-create call of client c read it
RowsBackedUp(c, t) ==
  LET i == CHOOSE i \in 1..Len(cr[c].tables) : cr[c].tables[i].name = t
  IN cr[c].tables[i].rows

\* a restore that succeeded never holds, in a table, another number of rows
\* than the call that wrote the metadata it read has backed up
C31_RestoredRowsOfOneBackup ==
  RestoreSucceeded =>
    \A m \in MetadataGets :
      LET c == WriterAt(m)
      IN (c # 0 /\ Succeeded(c)) =>
           \A t \in Range(metadata.loadOrder) :
             Len(dstDb[t].rows) = RowsBackedUp(c, t)

\* a restore that read every file from one backup-create call, while the
\* second call was under way
C31_WitnessUnmixed ==
  /\ RestoreSucceeded
  /\ Len(metadata.loadOrder) = 2
  /\ cr[2].pc \notin {"idle", "done"}
  /\ \A m \in MetadataGets, j \in DataGets : WriterAt(j) = WriterAt(m)

=============================================================================
